---- MODULE Spec2Model ----
(***************************************************************************)
(* A model of the hyperdrive consensus engine (package process): the       *)
(* per-participant Tendermint state machine, its three message tallies,    *)
(* its timeout tasks and the latest-commit catch-up.                       *)
(*                                                                         *)
(* A process is a record; every function of the engine is an operator     *)
(* from the record before the call to the record after it, written in the *)
(* order of the statements of the function.  The record also carries what *)
(* the process did to its collaborators: the blocks it stored, the         *)
(* messages it broadcast, the timeout tasks it started and the Observer    *)
(* calls it made.                                                          *)
(***************************************************************************)
EXTENDS Integers, Sequences, FiniteSets, Bags, TLC

(***************************************************************************)
(* Bounds of the model.                                                    *)
(***************************************************************************)
\* the precommit timeout starts no round above MaxRound
MaxRound == 2
\* a process handles a message while fewer timeout tasks than this are asleep
MaxTimers == 3
\* calls of StartRound from outside the engine in one behaviour
MaxStartRounds == 1
\* calls of MarshalBinary and MarshalJSON in one behaviour
MaxSaves == 1

(***************************************************************************)
(* Program constants.                                                      *)
(***************************************************************************)
StepNil == 0
StepPropose == 1
StepPrevote == 2
StepPrecommit == 3

\* block.InvalidRound, the sentinel of "no round"
InvalidRound == -1

\* the number of signatories of the genesis block
NumSignatories == 4

Signatories == 0 .. (NumSignatories - 1)

\* f := len(signatories) / 3
F == NumSignatories \div 3

(***************************************************************************)
(* Blocks.  A block is its header's height and round and an identifier of  *)
(* its content; two blocks are Equal when they are the same record.        *)
(***************************************************************************)
InvalidBlock == [height |-> 0, round |-> InvalidRound, id |-> "none"]

Genesis == [height |-> 0, round |-> 0, id |-> "genesis"]

InvalidHash == <<0, InvalidRound, "none">>

\* block.Hash(): the hash of the whole block; InvalidHash for the empty block
Hash(b) == <<b.height, b.round, b.id>>

\* Validator.IsBlockValid: the Validator rejects the empty block and the
\* blocks of content "bad"
IsBlockValid(b, checkHistory) == b # InvalidBlock /\ b.id # "bad"

\* Proposer.BlockProposal: the fresh block of this process for (height, round)
BlockProposal(height, round) == [height |-> height, round |-> round, id |-> "own"]

\* Scheduler.Schedule: round robin over the signatories
Schedule(height, round) == (height + round + NumSignatories - 1) % NumSignatories

(***************************************************************************)
(* Messages.                                                               *)
(***************************************************************************)
NewPropose(sig, height, round, b, validRound, latestCommit) ==
    [type |-> "propose", sig |-> sig, height |-> height, round |-> round,
     block |-> b, validRound |-> validRound, latestCommit |-> latestCommit]

NewPrevote(sig, height, round, blockHash) ==
    [type |-> "prevote", sig |-> sig, height |-> height, round |-> round,
     blockHash |-> blockHash]

NewPrecommit(sig, height, round, blockHash) ==
    [type |-> "precommit", sig |-> sig, height |-> height, round |-> round,
     blockHash |-> blockHash]

\* a Precommit as it travels inside a LatestCommit: with its signature, which
\* Verify accepts or not
Signed(c, ok) ==
    [sig |-> c.sig, height |-> c.height, round |-> c.round,
     blockHash |-> c.blockHash, verifies |-> ok]

\* message.BlockHash()
BlockHashOf(m) == IF m.type = "propose" THEN Hash(m.block) ELSE m.blockHash

(***************************************************************************)
(* The tally (Inbox): at most one message per (height, round, signatory).  *)
(***************************************************************************)
AtHeightRound(t, height, round) ==
    {x \in t : x.height = height /\ x.round = round}

Contains(t, m) ==
    \E x \in t : x.height = m.height /\ x.round = m.round /\ x.sig = m.sig

\* Insert: the tally after it and the four signals
\* (n, firstTime, firstTimeExceedingF, firstTimeExceeding2F)
Insert(t, m) ==
    LET dup == Contains(t, m)
        previousN == Cardinality(AtHeightRound(t, m.height, m.round))
    IN  [tally |-> IF dup THEN t ELSE t \cup {m},
         n |-> IF dup THEN previousN ELSE previousN + 1,
         firstTime |-> ~dup /\ previousN = 0,
         firstTimeExceedingF |-> ~dup /\ previousN = F,
         firstTimeExceeding2F |-> ~dup /\ previousN = 2 * F]

QueryByHeightRoundBlockHash(t, height, round, blockHash) ==
    Cardinality({x \in AtHeightRound(t, height, round) : BlockHashOf(x) = blockHash})

\* the set is empty (nil) or holds the one message of that signatory
QueryByHeightRoundSignatory(t, height, round, sig) ==
    {x \in AtHeightRound(t, height, round) : x.sig = sig}

QueryMessagesByHeightWithHigestRound(t, height) ==
    {x \in t : x.height = height /\ \A y \in t : y.height = height => y.round <= x.round}

\* Inbox.Reset(height): the messages below height are dropped
ResetTally(t, height) == {x \in t : x.height >= height}

(***************************************************************************)
(* The process.                                                            *)
(***************************************************************************)
\* the Signatories of the genesis block's header
GenesisSignatories == Signatories

NoBlocks == [h \in {0} |-> Genesis]

\* New with the default State and a Blockchain that holds the genesis block
New ==
    [CurrentHeight |-> 1, CurrentRound |-> 0, CurrentStep |-> StepNil,
     LockedBlock |-> InvalidBlock, LockedRound |-> InvalidRound,
     ValidBlock |-> InvalidBlock, ValidRound |-> InvalidRound,
     Proposals |-> {}, Prevotes |-> {}, Precommits |-> {},
     blockchain |-> NoBlocks,
     broadcast |-> << >>, started |-> << >>, timers |-> EmptyBag, observed |-> << >>,
     panicked |-> FALSE]

\* Blockchain.BlockExistsAtHeight
BlockExistsAtHeight(s, height) == height \in DOMAIN s.blockchain

\* Blockchain.BlockAtHeight, where a block exists
BlockAtHeight(s, height) == s.blockchain[height]

\* Blockchain.InsertBlockAtHeight
InsertBlockAtHeight(s, height, b) ==
    [s EXCEPT !.blockchain =
        [h \in DOMAIN s.blockchain \cup {height} |->
            IF h = height THEN b ELSE s.blockchain[h]]]

\* Broadcaster.Broadcast
Broadcast(s, m) == [s EXCEPT !.broadcast = Append(@, m)]

\* go func() { time.Sleep(duration); ... } of scheduleTimeoutPropose,
\* scheduleTimeoutPrevote and scheduleTimeoutPrecommit: one more sleeping task
scheduleTimeout(s, step, height, round) ==
    [s EXCEPT !.timers =
        @ (+) SetToBag({[step |-> step, height |-> height, round |-> round]})]

\* State.Reset(height)
Reset(s, height) ==
    [s EXCEPT !.CurrentStep = StepPropose,
              !.LockedBlock = InvalidBlock, !.LockedRound = InvalidRound,
              !.ValidBlock = InvalidBlock, !.ValidRound = InvalidRound,
              !.Proposals = ResetTally(@, height),
              !.Prevotes = ResetTally(@, height),
              !.Precommits = ResetTally(@, height)]

\* startRound that attaches InvalidRound to whatever it proposes
startRoundWithoutValidRound(me, s0, round) ==
    LET s == [s0 EXCEPT !.CurrentRound = round, !.CurrentStep = StepPropose,
                        !.started = Append(@, round)]
        h == s.CurrentHeight
    IN  IF me = Schedule(h, round)
        THEN IF ~BlockExistsAtHeight(s, h - 1)
             THEN [s EXCEPT !.panicked = TRUE]
             ELSE
             LET proposal == IF Hash(s.ValidBlock) # InvalidHash
                             THEN s.ValidBlock
                             ELSE BlockProposal(h, round)
                 previousBlock == BlockAtHeight(s, h - 1)
                 messages == QueryMessagesByHeightWithHigestRound(s.Precommits, h - 1)
                 commits == {Signed(c, TRUE) : c \in
                                {x \in messages : x.blockHash = Hash(previousBlock)}}
             IN  Broadcast(s, NewPropose(me, h, round, proposal, InvalidRound,
                                         [Block |-> previousBlock, Precommits |-> commits]))
        ELSE scheduleTimeout(s, StepPropose, h, round)

startRound(me, s0, round) ==
    LET s == [s0 EXCEPT !.CurrentRound = round, !.CurrentStep = StepPropose,
                        !.started = Append(@, round)]
        h == s.CurrentHeight
    IN  IF me = Schedule(h, round)
        THEN IF ~BlockExistsAtHeight(s, h - 1)
             THEN [s EXCEPT !.panicked = TRUE]
             ELSE
             LET proposal == IF Hash(s.ValidBlock) # InvalidHash
                             THEN s.ValidBlock
                             ELSE BlockProposal(h, round)
                 previousBlock == BlockAtHeight(s, h - 1)
                 messages == QueryMessagesByHeightWithHigestRound(s.Precommits, h - 1)
                 commits == {Signed(c, TRUE) : c \in
                                {x \in messages : x.blockHash = Hash(previousBlock)}}
             IN  Broadcast(s, NewPropose(me, h, round, proposal, s.ValidRound,
                                         [Block |-> previousBlock, Precommits |-> commits]))
        ELSE scheduleTimeout(s, StepPropose, h, round)

\* lines 309-310 of startRound
startRoundAssigns(s, round) ==
    [s EXCEPT !.CurrentRound = round, !.CurrentStep = StepPropose,
              !.started = Append(@, round)]

\* lines 312-350 of startRound, which read the height and the round from the
\* state again
startRoundProposes(me, s) ==
    LET h == s.CurrentHeight
        round == s.CurrentRound
    IN  IF me = Schedule(h, round)
        THEN IF ~BlockExistsAtHeight(s, h - 1)
             THEN [s EXCEPT !.panicked = TRUE]
             ELSE
             LET proposal == IF Hash(s.ValidBlock) # InvalidHash
                             THEN s.ValidBlock
                             ELSE BlockProposal(h, round)
                 previousBlock == BlockAtHeight(s, h - 1)
                 messages == QueryMessagesByHeightWithHigestRound(s.Precommits, h - 1)
                 commits == {Signed(c, TRUE) : c \in
                                {x \in messages : x.blockHash = Hash(previousBlock)}}
             IN  Broadcast(s, NewPropose(me, h, round, proposal, s.ValidRound,
                                         [Block |-> previousBlock, Precommits |-> commits]))
        ELSE scheduleTimeout(s, StepPropose, h, round)

checkProposeInCurrentHeightAndRoundWithPrevotes(me, s) ==
    LET m == QueryByHeightRoundSignatory(s.Proposals, s.CurrentHeight, s.CurrentRound,
                                         Schedule(s.CurrentHeight, s.CurrentRound))
    IN  IF m = {} THEN s ELSE
        LET propose == CHOOSE x \in m : TRUE
            n == QueryByHeightRoundBlockHash(s.Prevotes, s.CurrentHeight,
                                             propose.validRound, Hash(propose.block))
        IN  IF /\ propose.validRound > InvalidRound
               /\ n > 2 * F
               /\ s.CurrentStep = StepPropose
               /\ propose.validRound < s.CurrentRound
            THEN LET prevote ==
                        IF /\ IsBlockValid(propose.block, TRUE)
                           /\ \/ s.LockedRound <= propose.validRound
                              \/ s.LockedBlock = propose.block
                        THEN NewPrevote(me, s.CurrentHeight, s.CurrentRound, Hash(propose.block))
                        ELSE NewPrevote(me, s.CurrentHeight, s.CurrentRound, InvalidHash)
                 IN  Broadcast([s EXCEPT !.CurrentStep = StepPrevote], prevote)
            ELSE s

\* checkProposeInCurrentHeightAndRoundWithPrevotesForTheFirstTime without the
\* assignment of LockedRound at line 571
lockBlockWithoutRound(me, s) ==
    LET m == QueryByHeightRoundSignatory(s.Proposals, s.CurrentHeight, s.CurrentRound,
                                         Schedule(s.CurrentHeight, s.CurrentRound))
    IN  IF m = {} THEN s ELSE
        LET propose == CHOOSE x \in m : TRUE
            n == QueryByHeightRoundBlockHash(s.Prevotes, s.CurrentHeight,
                                             s.CurrentRound, Hash(propose.block))
        IN  IF /\ n > 2 * F
               /\ s.CurrentStep >= StepPrevote
               /\ IsBlockValid(propose.block, TRUE)
            THEN LET v == [s EXCEPT !.ValidBlock = propose.block,
                                    !.ValidRound = s.CurrentRound]
                 IN  IF s.CurrentStep = StepPrevote
                     THEN Broadcast([v EXCEPT !.LockedBlock = propose.block,
                                              !.CurrentStep = StepPrecommit],
                                    NewPrecommit(me, s.CurrentHeight, s.CurrentRound,
                                                 Hash(propose.block)))
                     ELSE v
            ELSE s

checkProposeInCurrentHeightAndRoundWithPrevotesForTheFirstTime(me, s) ==
    LET m == QueryByHeightRoundSignatory(s.Proposals, s.CurrentHeight, s.CurrentRound,
                                         Schedule(s.CurrentHeight, s.CurrentRound))
    IN  IF m = {} THEN s ELSE
        LET propose == CHOOSE x \in m : TRUE
            n == QueryByHeightRoundBlockHash(s.Prevotes, s.CurrentHeight,
                                             s.CurrentRound, Hash(propose.block))
        IN  IF /\ n > 2 * F
               /\ s.CurrentStep >= StepPrevote
               /\ IsBlockValid(propose.block, TRUE)
            THEN LET v == [s EXCEPT !.ValidBlock = propose.block,
                                    !.ValidRound = s.CurrentRound]
                 IN  IF s.CurrentStep = StepPrevote
                     THEN Broadcast([v EXCEPT !.LockedBlock = propose.block,
                                              !.LockedRound = s.CurrentRound,
                                              !.CurrentStep = StepPrecommit],
                                    NewPrecommit(me, s.CurrentHeight, s.CurrentRound,
                                                 Hash(propose.block)))
                     ELSE v
            ELSE s

\* checkProposeInCurrentHeightWithPrecommits without its call of State.Reset
commitWithoutReset(me, s, round) ==
    LET m == QueryByHeightRoundSignatory(s.Proposals, s.CurrentHeight, round,
                                         Schedule(s.CurrentHeight, round))
    IN  IF m = {} THEN s ELSE
        LET propose == CHOOSE x \in m : TRUE
            n == QueryByHeightRoundBlockHash(s.Precommits, s.CurrentHeight, round,
                                             Hash(propose.block))
        IN  IF /\ n > 2 * F
               /\ ~BlockExistsAtHeight(s, s.CurrentHeight)
               /\ IsBlockValid(propose.block, TRUE)
            THEN LET a == InsertBlockAtHeight(s, s.CurrentHeight, propose.block)
                     b == [a EXCEPT !.CurrentHeight = @ + 1]
                     d == [b EXCEPT !.observed = Append(@, b.CurrentHeight - 1)]
                 IN  startRound(me, d, 0)
            ELSE s

\* checkProposeInCurrentHeightWithPrecommits without its test of
\* BlockExistsAtHeight
commitOverStoredBlock(me, s, round) ==
    LET m == QueryByHeightRoundSignatory(s.Proposals, s.CurrentHeight, round,
                                         Schedule(s.CurrentHeight, round))
    IN  IF m = {} THEN s ELSE
        LET propose == CHOOSE x \in m : TRUE
            n == QueryByHeightRoundBlockHash(s.Precommits, s.CurrentHeight, round,
                                             Hash(propose.block))
        IN  IF /\ n > 2 * F
               /\ IsBlockValid(propose.block, TRUE)
            THEN LET a == InsertBlockAtHeight(s, s.CurrentHeight, propose.block)
                     b == [a EXCEPT !.CurrentHeight = @ + 1]
                     c == Reset(b, b.CurrentHeight - 1)
                     d == [c EXCEPT !.observed = Append(@, c.CurrentHeight - 1)]
                 IN  startRound(me, d, 0)
            ELSE s

\* checkProposeInCurrentHeightWithPrecommits counting the precommits of the
\* round whatever they are for
commitOnAnyPrecommits(me, s, round) ==
    LET m == QueryByHeightRoundSignatory(s.Proposals, s.CurrentHeight, round,
                                         Schedule(s.CurrentHeight, round))
    IN  IF m = {} THEN s ELSE
        LET propose == CHOOSE x \in m : TRUE
            n == Cardinality(AtHeightRound(s.Precommits, s.CurrentHeight, round))
        IN  IF /\ n > 2 * F
               /\ ~BlockExistsAtHeight(s, s.CurrentHeight)
               /\ IsBlockValid(propose.block, TRUE)
            THEN LET a == InsertBlockAtHeight(s, s.CurrentHeight, propose.block)
                     b == [a EXCEPT !.CurrentHeight = @ + 1]
                     c == Reset(b, b.CurrentHeight - 1)
                     d == [c EXCEPT !.observed = Append(@, c.CurrentHeight - 1)]
                 IN  startRound(me, d, 0)
            ELSE s

checkProposeInCurrentHeightWithPrecommits(me, s, round) ==
    LET m == QueryByHeightRoundSignatory(s.Proposals, s.CurrentHeight, round,
                                         Schedule(s.CurrentHeight, round))
    IN  IF m = {} THEN s ELSE
        LET propose == CHOOSE x \in m : TRUE
            n == QueryByHeightRoundBlockHash(s.Precommits, s.CurrentHeight, round,
                                             Hash(propose.block))
        IN  IF /\ n > 2 * F
               /\ ~BlockExistsAtHeight(s, s.CurrentHeight)
               /\ IsBlockValid(propose.block, TRUE)
            THEN LET a == InsertBlockAtHeight(s, s.CurrentHeight, propose.block)
                     b == [a EXCEPT !.CurrentHeight = @ + 1]
                     c == Reset(b, b.CurrentHeight - 1)
                     d == [c EXCEPT !.observed = Append(@, c.CurrentHeight - 1)]
                 IN  startRound(me, d, 0)
            ELSE s

\* syncLatestCommit that stores the block of the bundle over a stored one
syncOverStoredBlock(me, s, latestCommit) ==
    LET height == latestCommit.Block.height
        commits == latestCommit.Precommits
    IN  IF height > s.CurrentHeight THEN s
        ELSE IF ~IsBlockValid(latestCommit.Block, FALSE) THEN s
        ELSE IF ~BlockExistsAtHeight(s, 0) THEN [s EXCEPT !.panicked = TRUE]
        ELSE IF \E commit \in commits :
                    \/ ~commit.verifies
                    \/ commit.sig \notin GenesisSignatories
                    \/ commit.blockHash # Hash(latestCommit.Block)
                    \/ commit.height # height
                    \/ commit.round # latestCommit.Block.round
             THEN s
        ELSE IF Cardinality({commit.sig : commit \in commits}) < 2 * F + 1 THEN s
        ELSE LET a == InsertBlockAtHeight(s, height, latestCommit.Block)
                 b == [a EXCEPT !.CurrentHeight = height + 1, !.CurrentRound = 0]
             IN  startRound(me, Reset(b, height), b.CurrentRound)

\* syncLatestCommit without its count of the distinct signatories
syncWithoutQuorum(me, s, latestCommit) ==
    LET height == latestCommit.Block.height
        commits == latestCommit.Precommits
    IN  IF height > s.CurrentHeight THEN s
        ELSE IF ~IsBlockValid(latestCommit.Block, FALSE) THEN s
        ELSE IF ~BlockExistsAtHeight(s, 0) THEN [s EXCEPT !.panicked = TRUE]
        ELSE IF \E commit \in commits :
                    \/ ~commit.verifies
                    \/ commit.sig \notin GenesisSignatories
                    \/ commit.blockHash # Hash(latestCommit.Block)
                    \/ commit.height # height
                    \/ commit.round # latestCommit.Block.round
             THEN s
        ELSE LET a == IF ~BlockExistsAtHeight(s, height)
                      THEN InsertBlockAtHeight(s, height, latestCommit.Block)
                      ELSE s
                 b == [a EXCEPT !.CurrentHeight = height + 1, !.CurrentRound = 0]
             IN  startRound(me, Reset(b, height), b.CurrentRound)

syncLatestCommit(me, s, latestCommit) ==
    LET height == latestCommit.Block.height
        commits == latestCommit.Precommits
    IN  IF height > s.CurrentHeight THEN s
        ELSE IF ~IsBlockValid(latestCommit.Block, FALSE) THEN s
        ELSE IF ~BlockExistsAtHeight(s, 0) THEN [s EXCEPT !.panicked = TRUE]
        ELSE IF \E commit \in commits :
                    \/ ~commit.verifies
                    \/ commit.sig \notin GenesisSignatories
                    \/ commit.blockHash # Hash(latestCommit.Block)
                    \/ commit.height # height
                    \/ commit.round # latestCommit.Block.round
             THEN s
        ELSE IF Cardinality({commit.sig : commit \in commits}) < 2 * F + 1 THEN s
        ELSE LET a == IF ~BlockExistsAtHeight(s, height)
                      THEN InsertBlockAtHeight(s, height, latestCommit.Block)
                      ELSE s
                 b == [a EXCEPT !.CurrentHeight = height + 1, !.CurrentRound = 0]
             IN  startRound(me, Reset(b, height), b.CurrentRound)

\* lines 359-383 of handlePropose: upon Propose{currentHeight, currentRound,
\* block, -1} from the scheduled proposer while the step is StepPropose
prevoteOnPropose(me, s, propose) ==
    IF /\ propose.height = s.CurrentHeight
       /\ propose.round = s.CurrentRound
       /\ propose.validRound = InvalidRound
       /\ propose.sig = Schedule(s.CurrentHeight, s.CurrentRound)
       /\ s.CurrentStep = StepPropose
    THEN LET prevote ==
                IF /\ IsBlockValid(propose.block, TRUE)
                   /\ \/ s.LockedRound = InvalidRound
                      \/ s.LockedBlock = propose.block
                THEN NewPrevote(me, s.CurrentHeight, s.CurrentRound, Hash(propose.block))
                ELSE NewPrevote(me, s.CurrentHeight, s.CurrentRound, InvalidHash)
         IN  Broadcast([s EXCEPT !.CurrentStep = StepPrevote], prevote)
    ELSE s

\* skipAhead to any other round of the height, lower ones as well
skipToAnyRound(me, s, n, m) ==
    IF n > F /\ m.height = s.CurrentHeight /\ m.round # s.CurrentRound
    THEN startRound(me, s, m.round)
    ELSE s

\* upon f+1 *{currentHeight, round, *, *} and round > currentRound
skipAhead(me, s, n, m) ==
    IF n > F /\ m.height = s.CurrentHeight /\ m.round > s.CurrentRound
    THEN startRound(me, s, m.round)
    ELSE s

handlePropose(me, s0, propose) ==
    LET s1 == syncLatestCommit(me, s0, propose.latestCommit)
        ins == Insert(s1.Proposals, propose)
        s2 == [s1 EXCEPT !.Proposals = ins.tally]
        s3 == prevoteOnPropose(me, s2, propose)
        s4 == skipAhead(me, s3, ins.n, propose)
        s5 == checkProposeInCurrentHeightAndRoundWithPrevotes(me, s4)
        s6 == IF ins.firstTime
              THEN checkProposeInCurrentHeightAndRoundWithPrevotesForTheFirstTime(me, s5)
              ELSE s5
    IN  checkProposeInCurrentHeightWithPrecommits(me, s6, propose.round)

\* lines 405-415 of handlePrevote: upon 2f+1 Prevote{currentHeight,
\* currentRound, nil} while the step is StepPrevote
precommitNilOnPrevotes(me, s) ==
    IF /\ QueryByHeightRoundBlockHash(s.Prevotes, s.CurrentHeight, s.CurrentRound,
                                      InvalidHash) > 2 * F
       /\ s.CurrentStep = StepPrevote
    THEN Broadcast([s EXCEPT !.CurrentStep = StepPrecommit],
                   NewPrecommit(me, s.CurrentHeight, s.CurrentRound, InvalidHash))
    ELSE s

handlePrevote(me, s0, prevote) ==
    LET ins == Insert(s0.Prevotes, prevote)
        s1 == [s0 EXCEPT !.Prevotes = ins.tally]
        s2 == IF /\ ins.firstTimeExceeding2F
                 /\ prevote.height = s1.CurrentHeight
                 /\ prevote.round = s1.CurrentRound
                 /\ s1.CurrentStep = StepPrevote
              THEN scheduleTimeout(s1, StepPrevote, s1.CurrentHeight, s1.CurrentRound)
              ELSE s1
        s3 == precommitNilOnPrevotes(me, s2)
        s4 == skipAhead(me, s3, ins.n, prevote)
        s5 == checkProposeInCurrentHeightAndRoundWithPrevotes(me, s4)
    IN  IF ins.firstTimeExceeding2F
        THEN checkProposeInCurrentHeightAndRoundWithPrevotesForTheFirstTime(me, s5)
        ELSE s5

handlePrecommit(me, s0, precommit) ==
    LET ins == Insert(s0.Precommits, precommit)
        s1 == [s0 EXCEPT !.Precommits = ins.tally]
        s2 == IF /\ ins.firstTimeExceeding2F
                 /\ precommit.height = s1.CurrentHeight
                 /\ precommit.round = s1.CurrentRound
              THEN scheduleTimeout(s1, StepPrecommit, s1.CurrentHeight, s1.CurrentRound)
              ELSE s1
        s3 == skipAhead(me, s2, ins.n, precommit)
    IN  checkProposeInCurrentHeightWithPrecommits(me, s3, precommit.round)

\* timeoutPropose without its test of the step
timeoutProposeInAnyStep(me, s, height, round) ==
    IF height = s.CurrentHeight /\ round = s.CurrentRound
    THEN Broadcast([s EXCEPT !.CurrentStep = StepPrevote],
                   NewPrevote(me, s.CurrentHeight, s.CurrentRound, InvalidHash))
    ELSE s

timeoutPropose(me, s, height, round) ==
    IF height = s.CurrentHeight /\ round = s.CurrentRound /\ s.CurrentStep = StepPropose
    THEN Broadcast([s EXCEPT !.CurrentStep = StepPrevote],
                   NewPrevote(me, s.CurrentHeight, s.CurrentRound, InvalidHash))
    ELSE s

\* timeoutPrevote without its test of the height and the round
timeoutPrevoteInAnyRound(me, s, height, round) ==
    IF s.CurrentStep = StepPrevote
    THEN Broadcast([s EXCEPT !.CurrentStep = StepPrecommit],
                   NewPrecommit(me, s.CurrentHeight, s.CurrentRound, InvalidHash))
    ELSE s

timeoutPrevote(me, s, height, round) ==
    IF height = s.CurrentHeight /\ round = s.CurrentRound /\ s.CurrentStep = StepPrevote
    THEN Broadcast([s EXCEPT !.CurrentStep = StepPrecommit],
                   NewPrecommit(me, s.CurrentHeight, s.CurrentRound, InvalidHash))
    ELSE s

\* timeoutPrecommit that starts the round it is in again
timeoutPrecommitSameRound(me, s, height, round) ==
    IF height = s.CurrentHeight /\ round = s.CurrentRound
    THEN startRound(me, s, s.CurrentRound)
    ELSE s

timeoutPrecommit(me, s, height, round) ==
    IF height = s.CurrentHeight /\ round = s.CurrentRound
    THEN startRound(me, s, s.CurrentRound + 1)
    ELSE s

\* HandleMessage: the type switch
HandleMessage(me, s, m) ==
    IF m.type = "propose" THEN handlePropose(me, s, m)
    ELSE IF m.type = "prevote" THEN handlePrevote(me, s, m)
    ELSE handlePrecommit(me, s, m)

(***************************************************************************)
(* One process and its environment.  The process is signatory Me; the      *)
(* other signatories and the network are the environment, which hands the  *)
(* process the messages of a bounded set, in any order and any number of   *)
(* times.  StartRound is called from outside at most MaxStartRounds times. *)
(* The variables replicas and network belong to the network of replicas    *)
(* further down, mu and running to the goroutines of one process, replica  *)
(* to the Run loop of one Replica, disk to what MarshalBinary and          *)
(* MarshalJSON returned last (binary, json) and the State they were called *)
(* on (binaryOf, jsonOf), saves counting the calls; they rest where they    *)
(* are not used.                                                           *)
(***************************************************************************)
VARIABLES p, sent, calls, replicas, network, mu, running, replica, disk

vars == <<p, sent, calls, replicas, network, mu, running, replica, disk>>

\* what the events of one process running alone leave as it is
rest == <<replicas, network, mu, running, replica, disk>>

\* Process.mu of a process nobody has locked
Free == "free"

\* nothing has been written by MarshalBinary or MarshalJSON
NoData ==
    [binary |-> << >>, binaryOf |-> << >>, json |-> << >>, jsonOf |-> << >>,
     saves |-> 0]

\* the last of the signatories
Me == NumSignatories - 1

Others == Signatories \ {Me}

\* a block of the environment at a height
EnvBlock(height, id) == [height |-> height, round |-> 0, id |-> id]

\* the LatestCommit of a proposer that holds no precommit of the height below
NoCommit(height) ==
    [Block |-> IF height = 1 THEN Genesis ELSE EnvBlock(height - 1, "B"),
     Precommits |-> {}]

\* the LatestCommit of a proposer that holds the precommits of signers for b
Certificate(b, signers) ==
    [Block |-> b,
     Precommits |-> {Signed(NewPrecommit(sg, b.height, b.round, Hash(b)), TRUE) :
                        sg \in signers}]

\* a Propose of the scheduled proposer
Proposal(height, round, b, validRound, latestCommit) ==
    NewPropose(Schedule(height, round), height, round, b, validRound, latestCommit)

\* The messages of the first environment: rounds 0..2 of height 1.
RoundInputs ==
    {Proposal(1, 0, EnvBlock(1, "B"), InvalidRound, NoCommit(1)),
     Proposal(1, 1, EnvBlock(1, "C"), InvalidRound, NoCommit(1)),
     Proposal(1, 2, EnvBlock(1, "B"), 0, NoCommit(1))}
    \cup {NewPrevote(sg, 1, 0, Hash(EnvBlock(1, "B"))) : sg \in Others}
    \cup {NewPrevote(sg, 1, 0, InvalidHash) : sg \in {0}}
    \cup {NewPrecommit(sg, 1, 0, Hash(EnvBlock(1, "B"))) : sg \in Others}

\* The messages of the second environment: the proposals of heights 2 and 3,
\* all but one with the certificate of the block below them as the honest
\* proposer of startRound attaches it, and the prevotes of (2, 0).
CatchUpInputs ==
    {Proposal(2, 0, EnvBlock(2, "B"), InvalidRound, Certificate(EnvBlock(1, "B"), Others)),
     Proposal(2, 0, EnvBlock(2, "C"), InvalidRound, NoCommit(2)),
     Proposal(2, 1, EnvBlock(2, "C"), InvalidRound, Certificate(EnvBlock(1, "B"), Others)),
     Proposal(2, 1, EnvBlock(2, "B"), 0, Certificate(EnvBlock(1, "B"), Others)),
     Proposal(3, 0, EnvBlock(3, "B"), InvalidRound, Certificate(EnvBlock(2, "B"), Others))}
    \cup {NewPrevote(sg, 2, 0, Hash(EnvBlock(2, "B"))) : sg \in Others}

Rounds == 0 .. 2

\* the process as an event finds it: what it did to its collaborators during
\* the event before is forgotten
Entering(s) == [s EXCEPT !.broadcast = << >>, !.started = << >>]

\* the votes for a block the process has broadcast so far
NonNilVotes(s) ==
    {s.broadcast[i] : i \in {j \in 1 .. Len(s.broadcast) :
        s.broadcast[j].type # "propose" /\ s.broadcast[j].blockHash # InvalidHash}}

Init ==
    /\ p = New
    /\ sent = {}
    /\ calls = 0
    /\ replicas = << >>
    /\ network = {}
    /\ mu = Free
    /\ running = {}
    /\ replica = << >>
    /\ disk = NoData

\* Start: startRound(CurrentRound), once, before any event (Replica.Run)
Start ==
    /\ p.CurrentStep = StepNil
    /\ p' = startRound(Me, Entering(p), p.CurrentRound)
    /\ sent' = sent \cup NonNilVotes(p')
    /\ UNCHANGED <<calls, rest>>

StartRound ==
    /\ p.CurrentStep # StepNil
    /\ calls < MaxStartRounds
    /\ BagCardinality(p.timers) < MaxTimers
    /\ \E round \in Rounds : p' = startRound(Me, Entering(p), round)
    /\ sent' = sent \cup NonNilVotes(p')
    /\ calls' = calls + 1
    /\ UNCHANGED rest

OnMessage(inputs) ==
    /\ p.CurrentStep # StepNil
    /\ BagCardinality(p.timers) < MaxTimers
    /\ \E m \in inputs : p' = HandleMessage(Me, Entering(p), m)
    /\ sent' = sent \cup NonNilVotes(p')
    /\ UNCHANGED <<calls, rest>>

\* the sleeping timeout task t wakes up, takes the mutex and runs its handler
Timeout(t) ==
    /\ t \in BagToSet(p.timers)
    /\ LET s == [Entering(p) EXCEPT !.timers = @ (-) SetToBag({t})]
       IN  /\ (t.step = StepPrecommit /\ t.height = p.CurrentHeight
                  /\ t.round = p.CurrentRound) => p.CurrentRound < MaxRound
           /\ p' = IF t.step = StepPropose THEN timeoutPropose(Me, s, t.height, t.round)
                   ELSE IF t.step = StepPrevote THEN timeoutPrevote(Me, s, t.height, t.round)
                   ELSE timeoutPrecommit(Me, s, t.height, t.round)
    /\ sent' = sent \cup NonNilVotes(p')
    /\ UNCHANGED <<calls, rest>>

OnTimeout == \E t \in BagToSet(p.timers) : Timeout(t)

Next == Start \/ StartRound \/ OnMessage(RoundInputs) \/ OnTimeout

Spec == Init /\ [][Next]_vars

\* the first environment with no caller that starts rounds from outside
HandlingNext == Start \/ OnMessage(RoundInputs) \/ OnTimeout

HandlingSpec == Init /\ [][HandlingNext]_vars

\* The messages of the seventh environment: round 0 of height 1 with the
\* proposal of the scheduled proposer for B, a proposal for C signed by
\* signatory 1, who is not scheduled, and precommits for B, for C and for nil,
\* the process's own precommit for B among them.
MixedInputs ==
    {Proposal(1, 0, EnvBlock(1, "B"), InvalidRound, NoCommit(1)),
     NewPropose(1, 1, 0, EnvBlock(1, "C"), InvalidRound, NoCommit(1))}
    \cup {NewPrecommit(sg, 1, 0, Hash(EnvBlock(1, "B"))) : sg \in {0, 1, Me}}
    \cup {NewPrecommit(sg, 1, 0, Hash(EnvBlock(1, "C"))) : sg \in {1, 2}}
    \cup {NewPrecommit(sg, 1, 0, InvalidHash) : sg \in {2}}

MixedNext == Start \/ OnMessage(MixedInputs) \/ OnTimeout

MixedSpec == Init /\ [][MixedNext]_vars

\* The messages of the eighth environment: the proposal of (1, 0) for B with
\* bundles for the block B of height 1, one of them well formed and the
\* others each with one defect, and the prevotes of (1, 0) for B.
BundleInputs ==
    {Proposal(1, 0, EnvBlock(1, "B"), InvalidRound, latestCommit) : latestCommit \in
        {Certificate(EnvBlock(1, "B"), Others),
         Certificate(EnvBlock(1, "bad"), Others),
         Certificate(EnvBlock(1, "B"), {0, 1}),
         [Certificate(EnvBlock(1, "B"), {0, 1}) EXCEPT !.Precommits = @ \cup
            {Signed(NewPrecommit(2, 1, 0, Hash(EnvBlock(1, "B"))), FALSE)}],
         [Certificate(EnvBlock(1, "B"), {0, 1}) EXCEPT !.Precommits = @ \cup
            {Signed(NewPrecommit(NumSignatories, 1, 0, Hash(EnvBlock(1, "B"))), TRUE)}],
         [Certificate(EnvBlock(1, "B"), Others) EXCEPT !.Precommits = @ \cup
            {Signed(NewPrecommit(Me, 1, 0, Hash(EnvBlock(1, "C"))), TRUE)}],
         [Certificate(EnvBlock(1, "B"), Others) EXCEPT !.Precommits = @ \cup
            {Signed(NewPrecommit(Me, 2, 0, Hash(EnvBlock(1, "B"))), TRUE)}],
         [Certificate(EnvBlock(1, "B"), Others) EXCEPT !.Precommits = @ \cup
            {Signed(NewPrecommit(Me, 1, 1, Hash(EnvBlock(1, "B"))), TRUE)}]}}
    \cup {NewPrevote(sg, 1, 0, Hash(EnvBlock(1, "B"))) : sg \in Others}

BundleNext == Start \/ OnMessage(BundleInputs) \/ OnTimeout

BundleSpec == Init /\ [][BundleNext]_vars

(***************************************************************************)
(* The persisted State.  A byte is a number of 0 .. 255 and the encoding a  *)
(* sequence of bytes.  MarshalBinary and UnmarshalBinary of the Process are *)
(* written statement by statement; the encodings of a block and of a tally  *)
(* (block.Block, Inbox: MarshalBinary, UnmarshalBinary) are their own       *)
(* business and are taken here as fixed-width fields, little endian, with   *)
(* counted lists.                                                           *)
(***************************************************************************)
\* the fields of State
StateOf(s) ==
    [CurrentHeight |-> s.CurrentHeight, CurrentRound |-> s.CurrentRound,
     CurrentStep |-> s.CurrentStep,
     LockedBlock |-> s.LockedBlock, LockedRound |-> s.LockedRound,
     ValidBlock |-> s.ValidBlock, ValidRound |-> s.ValidRound,
     Proposals |-> s.Proposals, Prevotes |-> s.Prevotes, Precommits |-> s.Precommits]

\* binary.Write(buf, binary.LittleEndian, x) of an integer of n bytes, in
\* two's complement; the values of the model fit the four low bytes
WriteInt(x, n) ==
    [i \in 1 .. n |->
        IF i > 4 THEN (IF x >= 0 THEN 0 ELSE 255)
        ELSE IF x >= 0 THEN (x \div 256 ^ (i - 1)) % 256
        ELSE 255 - ((((0 - x) - 1) \div 256 ^ (i - 1)) % 256)]

RECURSIVE Base256(_, _, _)
Base256(b, i, complement) ==
    IF i > Len(b) \/ i > 4 THEN 0
    ELSE (IF complement THEN 255 - b[i] ELSE b[i]) + 256 * Base256(b, i + 1, complement)

\* binary.Read into an unsigned integer (uint8, uint64)
ReadUint(b) == Base256(b, 1, FALSE)

\* binary.Read into a signed integer (block.Height, block.Round: int64)
ReadInt(b) ==
    IF b[Len(b)] >= 128 THEN 0 - (1 + Base256(b, 1, TRUE)) ELSE Base256(b, 1, FALSE)

\* buf.Read(make([]byte, n)) and binary.Read of n bytes: the bytes read and
\* the buffer after them
Take(buf, n) ==
    LET k == IF n <= Len(buf) THEN n ELSE Len(buf)
    IN  [val |-> SubSeq(buf, 1, k), rest |-> SubSeq(buf, k + 1, Len(buf))]

\* the contents of the blocks and the types of the messages, numbered
Ids == <<"none", "genesis", "B", "C", "own", "bad">>

Types == <<"propose", "prevote", "precommit">>

Code(names, name) == CHOOSE i \in 1 .. Len(names) : names[i] = name

\* the elements of a set in an order
RECURSIVE Listed(_)
Listed(S) ==
    IF S = {} THEN << >>
    ELSE LET x == CHOOSE y \in S : TRUE IN <<x>> \o Listed(S \ {x})

\* the encodings of a list one after the other
RECURSIVE Concat(_)
Concat(q) == IF q = << >> THEN << >> ELSE Head(q) \o Concat(Tail(q))

\* Block.MarshalBinary: 17 bytes; a block hash is written like its block
BlockMarshalBinary(b) ==
    WriteInt(b.height, 8) \o WriteInt(b.round, 8) \o <<Code(Ids, b.id)>>

BlockUnmarshalBinary(data) ==
    [height |-> ReadInt(SubSeq(data, 1, 8)), round |-> ReadInt(SubSeq(data, 9, 16)),
     id |-> Ids[data[17]]]

\* a Precommit inside a LatestCommit with its signature: 35 bytes
CommitMarshalBinary(c) ==
    <<c.sig>> \o WriteInt(c.height, 8) \o WriteInt(c.round, 8)
        \o BlockMarshalBinary([height |-> c.blockHash[1], round |-> c.blockHash[2],
                               id |-> c.blockHash[3]])
        \o <<IF c.verifies THEN 1 ELSE 0>>

CommitUnmarshalBinary(data) ==
    [sig |-> data[1], height |-> ReadInt(SubSeq(data, 2, 9)),
     round |-> ReadInt(SubSeq(data, 10, 17)),
     blockHash |-> Hash(BlockUnmarshalBinary(SubSeq(data, 18, 34))),
     verifies |-> data[35] = 1]

\* Propose, Prevote, Precommit: MarshalBinary
MessageMarshalBinary(m) ==
    <<Code(Types, m.type), m.sig>> \o WriteInt(m.height, 8) \o WriteInt(m.round, 8)
        \o (IF m.type = "propose"
            THEN LET commits == Listed(m.latestCommit.Precommits)
                 IN  BlockMarshalBinary(m.block) \o WriteInt(m.validRound, 8)
                        \o BlockMarshalBinary(m.latestCommit.Block)
                        \o WriteInt(Len(commits), 8)
                        \o Concat([i \in 1 .. Len(commits) |->
                                      CommitMarshalBinary(commits[i])])
            ELSE BlockMarshalBinary([height |-> m.blockHash[1], round |-> m.blockHash[2],
                                     id |-> m.blockHash[3]]))

MessageUnmarshalBinary(data) ==
    LET type == Types[data[1]]
        sig == data[2]
        height == ReadInt(SubSeq(data, 3, 10))
        round == ReadInt(SubSeq(data, 11, 18))
    IN  IF type = "propose"
        THEN NewPropose(sig, height, round,
                        BlockUnmarshalBinary(SubSeq(data, 19, 35)),
                        ReadInt(SubSeq(data, 36, 43)),
                        [Block |-> BlockUnmarshalBinary(SubSeq(data, 44, 60)),
                         Precommits |->
                            {CommitUnmarshalBinary(SubSeq(data, 34 + 35 * i, 68 + 35 * i)) :
                                i \in 1 .. ReadUint(SubSeq(data, 61, 68))}])
        ELSE [type |-> type, sig |-> sig, height |-> height, round |-> round,
              blockHash |-> Hash(BlockUnmarshalBinary(SubSeq(data, 19, 35)))]

\* Inbox.MarshalBinary: the number of messages, then each with its length
InboxMarshalBinary(t) ==
    LET q == Listed(t)
    IN  WriteInt(Len(q), 8)
            \o Concat([i \in 1 .. Len(q) |->
                          LET data == MessageMarshalBinary(q[i])
                          IN  WriteInt(Len(data), 8) \o data])

RECURSIVE MessagesUnmarshalBinary(_, _)
MessagesUnmarshalBinary(data, n) ==
    IF n = 0 THEN {}
    ELSE LET len == Take(data, 8)
             m == Take(len.rest, ReadUint(len.val))
         IN  {MessageUnmarshalBinary(m.val)} \cup MessagesUnmarshalBinary(m.rest, n - 1)

InboxUnmarshalBinary(data) ==
    LET n == Take(data, 8) IN MessagesUnmarshalBinary(n.rest, ReadUint(n.val))

\* MarshalBinary with CurrentRound written before CurrentHeight
marshalRoundFirst(s) ==
    LET lockedBlockData == BlockMarshalBinary(s.LockedBlock)
        validBlockData == BlockMarshalBinary(s.ValidBlock)
        proposalsData == InboxMarshalBinary(s.Proposals)
        prevotesData == InboxMarshalBinary(s.Prevotes)
        precommitsData == InboxMarshalBinary(s.Precommits)
    IN  WriteInt(s.CurrentRound, 8) \o WriteInt(s.CurrentHeight, 8)
            \o WriteInt(s.CurrentStep, 1)
            \o WriteInt(Len(lockedBlockData), 8) \o lockedBlockData
            \o WriteInt(s.LockedRound, 8)
            \o WriteInt(Len(validBlockData), 8) \o validBlockData
            \o WriteInt(s.ValidRound, 8)
            \o WriteInt(Len(proposalsData), 8) \o proposalsData
            \o WriteInt(Len(prevotesData), 8) \o prevotesData
            \o WriteInt(Len(precommitsData), 8) \o precommitsData

\* Process.MarshalBinary: lines 130-201
MarshalBinary(s) ==
    LET lockedBlockData == BlockMarshalBinary(s.LockedBlock)
        validBlockData == BlockMarshalBinary(s.ValidBlock)
        proposalsData == InboxMarshalBinary(s.Proposals)
        prevotesData == InboxMarshalBinary(s.Prevotes)
        precommitsData == InboxMarshalBinary(s.Precommits)
    IN  WriteInt(s.CurrentHeight, 8) \o WriteInt(s.CurrentRound, 8)
            \o WriteInt(s.CurrentStep, 1)
            \o WriteInt(Len(lockedBlockData), 8) \o lockedBlockData
            \o WriteInt(s.LockedRound, 8)
            \o WriteInt(Len(validBlockData), 8) \o validBlockData
            \o WriteInt(s.ValidRound, 8)
            \o WriteInt(Len(proposalsData), 8) \o proposalsData
            \o WriteInt(Len(prevotesData), 8) \o prevotesData
            \o WriteInt(Len(precommitsData), 8) \o precommitsData

\* Process.UnmarshalBinary: lines 205-277; the State of s is overwritten
UnmarshalBinary(s, data) ==
    LET currentHeight == Take(data, 8)
        currentRound == Take(currentHeight.rest, 8)
        currentStep == Take(currentRound.rest, 1)
        lockedBlockLen == Take(currentStep.rest, 8)
        lockedBlockBytes == Take(lockedBlockLen.rest, ReadUint(lockedBlockLen.val))
        lockedRound == Take(lockedBlockBytes.rest, 8)
        validBlockLen == Take(lockedRound.rest, 8)
        validBlockBytes == Take(validBlockLen.rest, ReadUint(validBlockLen.val))
        validRound == Take(validBlockBytes.rest, 8)
        proposalsLen == Take(validRound.rest, 8)
        proposalsBytes == Take(proposalsLen.rest, ReadUint(proposalsLen.val))
        prevotesLen == Take(proposalsBytes.rest, 8)
        prevotesBytes == Take(prevotesLen.rest, ReadUint(prevotesLen.val))
        precommitsLen == Take(prevotesBytes.rest, 8)
        precommitsBytes == Take(precommitsLen.rest, ReadUint(precommitsLen.val))
    IN  [s EXCEPT !.CurrentHeight = ReadInt(currentHeight.val),
                  !.CurrentRound = ReadInt(currentRound.val),
                  !.CurrentStep = ReadUint(currentStep.val),
                  !.LockedBlock = BlockUnmarshalBinary(lockedBlockBytes.val),
                  !.LockedRound = ReadInt(lockedRound.val),
                  !.ValidBlock = BlockUnmarshalBinary(validBlockBytes.val),
                  !.ValidRound = ReadInt(validRound.val),
                  !.Proposals = InboxUnmarshalBinary(proposalsBytes.val),
                  !.Prevotes = InboxUnmarshalBinary(prevotesBytes.val),
                  !.Precommits = InboxUnmarshalBinary(precommitsBytes.val)]

(***************************************************************************)
(* The JSON form: json.Marshal(p.state) and json.Unmarshal(data, &p.state). *)
(* The text is a sequence of tokens, all of them strings: the braces and    *)
(* brackets, the names of the fields, and the values, numbers in decimal.   *)
(***************************************************************************)
\* the numbers a State of the model holds
Numbers == InvalidRound .. 255

\* strconv of a number, and back
ParseNumber(token) == CHOOSE n \in Numbers : ToString(n) = token

\* a block of 8 tokens; a block hash is written like its block
BlockMarshalJSON(b) ==
    <<"{", "height", ToString(b.height), "round", ToString(b.round), "id", b.id, "}">>

BlockUnmarshalJSON(tokens) ==
    [height |-> ParseNumber(tokens[3]), round |-> ParseNumber(tokens[5]), id |-> tokens[7]]

\* a Precommit inside a LatestCommit with its signature: 19 tokens
CommitMarshalJSON(c) ==
    <<"{", "sig", ToString(c.sig), "height", ToString(c.height),
      "round", ToString(c.round), "blockHash">>
        \o BlockMarshalJSON([height |-> c.blockHash[1], round |-> c.blockHash[2],
                             id |-> c.blockHash[3]])
        \o <<"verifies", IF c.verifies THEN "true" ELSE "false", "}">>

CommitUnmarshalJSON(tokens) ==
    [sig |-> ParseNumber(tokens[3]), height |-> ParseNumber(tokens[5]),
     round |-> ParseNumber(tokens[7]),
     blockHash |-> Hash(BlockUnmarshalJSON(SubSeq(tokens, 9, 16))),
     verifies |-> tokens[18] = "true"]

MessageMarshalJSON(m) ==
    <<"{", "type", m.type, "sig", ToString(m.sig), "height", ToString(m.height),
      "round", ToString(m.round)>>
        \o (IF m.type = "propose"
            THEN LET commits == Listed(m.latestCommit.Precommits)
                 IN  <<"block">> \o BlockMarshalJSON(m.block)
                        \o <<"validRound", ToString(m.validRound),
                             "latestCommit", "{", "Block">>
                        \o BlockMarshalJSON(m.latestCommit.Block)
                        \o <<"Precommits", "[">>
                        \o Concat([i \in 1 .. Len(commits) |->
                                      CommitMarshalJSON(commits[i])])
                        \o <<"]", "}">>
            ELSE <<"blockHash">>
                    \o BlockMarshalJSON([height |-> m.blockHash[1],
                                         round |-> m.blockHash[2], id |-> m.blockHash[3]]))
        \o <<"}">>

\* one message and the tokens after it
MessageUnmarshalJSON(tokens) ==
    LET type == tokens[3]
        sig == ParseNumber(tokens[5])
        height == ParseNumber(tokens[7])
        round == ParseNumber(tokens[9])
    IN  IF type = "propose"
        THEN LET end == CHOOSE i \in 34 .. Len(tokens) :
                            tokens[i] = "]" /\ \A j \in 34 .. (i - 1) : tokens[j] # "]"
             IN  [val |-> NewPropose(sig, height, round,
                                     BlockUnmarshalJSON(SubSeq(tokens, 11, 18)),
                                     ParseNumber(tokens[20]),
                                     [Block |-> BlockUnmarshalJSON(SubSeq(tokens, 24, 31)),
                                      Precommits |->
                                        {CommitUnmarshalJSON(
                                            SubSeq(tokens, 15 + 19 * i, 33 + 19 * i)) :
                                            i \in 1 .. ((end - 34) \div 19)}]),
                  rest |-> SubSeq(tokens, end + 3, Len(tokens))]
        ELSE [val |-> [type |-> type, sig |-> sig, height |-> height, round |-> round,
                       blockHash |-> Hash(BlockUnmarshalJSON(SubSeq(tokens, 11, 18)))],
              rest |-> SubSeq(tokens, 20, Len(tokens))]

InboxMarshalJSON(t) ==
    LET q == Listed(t)
    IN  <<"[">> \o Concat([i \in 1 .. Len(q) |-> MessageMarshalJSON(q[i])]) \o <<"]">>

\* the messages of an array that has been opened, and the tokens after it
RECURSIVE MessagesUnmarshalJSON(_)
MessagesUnmarshalJSON(tokens) ==
    IF Head(tokens) = "]" THEN [val |-> {}, rest |-> Tail(tokens)]
    ELSE LET m == MessageUnmarshalJSON(tokens)
             r == MessagesUnmarshalJSON(m.rest)
         IN  [val |-> {m.val} \cup r.val, rest |-> r.rest]

\* Process.MarshalJSON: lines 114-118
MarshalJSON(s) ==
    <<"{", "CurrentHeight", ToString(s.CurrentHeight),
      "CurrentRound", ToString(s.CurrentRound),
      "CurrentStep", ToString(s.CurrentStep), "LockedBlock">>
        \o BlockMarshalJSON(s.LockedBlock)
        \o <<"LockedRound", ToString(s.LockedRound), "ValidBlock">>
        \o BlockMarshalJSON(s.ValidBlock)
        \o <<"ValidRound", ToString(s.ValidRound), "Proposals">>
        \o InboxMarshalJSON(s.Proposals)
        \o <<"Prevotes">> \o InboxMarshalJSON(s.Prevotes)
        \o <<"Precommits">> \o InboxMarshalJSON(s.Precommits)
        \o <<"}">>

\* Process.UnmarshalJSON: lines 122-126
UnmarshalJSON(s, tokens) ==
    LET proposals == MessagesUnmarshalJSON(SubSeq(tokens, 32, Len(tokens)))
        prevotes == MessagesUnmarshalJSON(SubSeq(proposals.rest, 3, Len(proposals.rest)))
        precommits == MessagesUnmarshalJSON(SubSeq(prevotes.rest, 3, Len(prevotes.rest)))
    IN  [s EXCEPT !.CurrentHeight = ParseNumber(tokens[3]),
                  !.CurrentRound = ParseNumber(tokens[5]),
                  !.CurrentStep = ParseNumber(tokens[7]),
                  !.LockedBlock = BlockUnmarshalJSON(SubSeq(tokens, 9, 16)),
                  !.LockedRound = ParseNumber(tokens[18]),
                  !.ValidBlock = BlockUnmarshalJSON(SubSeq(tokens, 20, 27)),
                  !.ValidRound = ParseNumber(tokens[29]),
                  !.Proposals = proposals.val,
                  !.Prevotes = prevotes.val,
                  !.Precommits = precommits.val]

(***************************************************************************)
(* A process that is saved and restored between its events.                *)
(***************************************************************************)
\* the proposal of (1, 0) and its prevotes
SaveInputs ==
    {Proposal(1, 0, EnvBlock(1, "B"), InvalidRound, NoCommit(1))}
    \cup {NewPrevote(sg, 1, 0, Hash(EnvBlock(1, "B"))) : sg \in Others}

SaveBinary ==
    /\ disk.saves < MaxSaves
    /\ disk' = [disk EXCEPT !.binary = MarshalBinary(p), !.binaryOf = StateOf(p),
                            !.saves = @ + 1]
    /\ UNCHANGED <<p, sent, calls, replicas, network, mu, running, replica>>

SaveJSON ==
    /\ disk.saves < MaxSaves
    /\ disk' = [disk EXCEPT !.json = MarshalJSON(p), !.jsonOf = StateOf(p),
                            !.saves = @ + 1]
    /\ UNCHANGED <<p, sent, calls, replicas, network, mu, running, replica>>

LoadBinary ==
    /\ disk.binary # << >>
    /\ BagCardinality(p.timers) < MaxTimers
    /\ p' = UnmarshalBinary(p, disk.binary)
    /\ UNCHANGED <<sent, calls, replicas, network, mu, running, replica, disk>>

LoadJSON ==
    /\ disk.json # << >>
    /\ BagCardinality(p.timers) < MaxTimers
    /\ p' = UnmarshalJSON(p, disk.json)
    /\ UNCHANGED <<sent, calls, replicas, network, mu, running, replica, disk>>

SaveNext ==
    \/ Start \/ OnMessage(SaveInputs) \/ OnTimeout
    \/ SaveBinary \/ SaveJSON \/ LoadBinary \/ LoadJSON

SaveSpec == Init /\ [][SaveNext]_vars

CatchUpNext == Start \/ StartRound \/ OnMessage(CatchUpInputs) \/ OnTimeout

CatchUpSpec == Init /\ [][CatchUpNext]_vars

\* The messages of the third environment: round 0 of height 2 with its votes,
\* its proposer holding no precommit of height 1, and the proposal of round 1
\* with the certificate of height 1.
CommitInputs ==
    {Proposal(2, 0, EnvBlock(2, "B"), InvalidRound, NoCommit(2)),
     Proposal(2, 1, EnvBlock(2, "C"), InvalidRound, Certificate(EnvBlock(1, "B"), Others))}
    \cup {NewPrevote(sg, 2, 0, Hash(EnvBlock(2, "B"))) : sg \in Others}
    \cup {NewPrecommit(sg, 2, 0, Hash(EnvBlock(2, "B"))) : sg \in Others}

CommitNext == Start \/ StartRound \/ OnMessage(CommitInputs) \/ OnTimeout

CommitSpec == Init /\ [][CommitNext]_vars

\* The messages of the ninth environment: those of the third and a proposal
\* of (3, 0) whose bundle certifies the block C at height 2, where the
\* precommits of the third environment certify B.
StoredInputs ==
    CommitInputs
    \cup {Proposal(3, 0, EnvBlock(3, "B"), InvalidRound, Certificate(EnvBlock(2, "C"), Others))}

StoredNext == Start \/ OnMessage(StoredInputs) \/ OnTimeout

StoredSpec == Init /\ [][StoredNext]_vars

\* The messages of the fifth environment: round 0 of height 1 with its
\* prevotes, the proposal of round 2 that names round 0 as its valid round,
\* the prevotes of round 2, and two prevotes of round 1 of height 2.
SkipInputs ==
    {Proposal(1, 0, EnvBlock(1, "B"), InvalidRound, NoCommit(1)),
     Proposal(1, 2, EnvBlock(1, "B"), 0, NoCommit(1))}
    \cup {NewPrevote(sg, 1, 0, Hash(EnvBlock(1, "B"))) : sg \in Others}
    \cup {NewPrevote(sg, 1, 2, Hash(EnvBlock(1, "B"))) : sg \in Others}
    \cup {NewPrevote(sg, 2, 1, Hash(EnvBlock(2, "B"))) : sg \in {0, 1}}

\* no caller starts rounds from outside
SkipNext == Start \/ OnMessage(SkipInputs) \/ OnTimeout

SkipSpec == Init /\ [][SkipNext]_vars

\* The messages of the sixth environment: those of the fifth and the proposal
\* of (2, 0) with the certificate of the block of height 1, so that a locked
\* process catches up to height 2 and goes on there.
LockInputs ==
    SkipInputs
    \cup {Proposal(2, 0, EnvBlock(2, "B"), InvalidRound, Certificate(EnvBlock(1, "B"), Others))}

\* message and timeout handling only
LockNext == Start \/ OnMessage(LockInputs) \/ OnTimeout

LockSpec == Init /\ [][LockNext]_vars

(***************************************************************************)
(* A network of four replicas, f = 1.  Replicas 0, 1 and 3 run the process *)
(* above; replica 2 is faulty and signs what it likes.  All four decided   *)
(* block B at height 1, and the three correct replicas are constructed     *)
(* from the state and the blockchain they stored then.  Broadcast reaches  *)
(* every replica, the sender included; the faulty replica controls the     *)
(* network, so it chooses which of the messages reaches whom, and when.    *)
(* The timer gives the Propose and Prevote steps timeouts that outlast the *)
(* behaviours explored here: their tasks sleep on and are not kept.        *)
(***************************************************************************)
\* the scheduled proposer of round 1 of height 2
Faulty == Schedule(2, 1)

Correct == Signatories \ {Faulty}

\* New with the State and the Blockchain stored after height 1
Restored ==
    [New EXCEPT
        !.CurrentHeight = 2,
        !.blockchain = [h \in {0, 1} |-> IF h = 0 THEN Genesis ELSE EnvBlock(1, "B")],
        !.Proposals = {Proposal(1, 0, EnvBlock(1, "B"), InvalidRound, NoCommit(1))},
        !.Prevotes = {NewPrevote(sg, 1, 0, Hash(EnvBlock(1, "B"))) : sg \in Correct},
        !.Precommits = {NewPrecommit(sg, 1, 0, Hash(EnvBlock(1, "B"))) : sg \in Correct}]

\* what the faulty replica signs: votes for the block of the honest proposer
\* of (2, 0), and its own proposal of (2, 1) with votes for it
FaultyMessages ==
    {NewPrevote(Faulty, 2, 0, Hash(BlockProposal(2, 0))),
     NewPrecommit(Faulty, 2, 0, Hash(BlockProposal(2, 0))),
     NewPropose(Faulty, 2, 1, [height |-> 2, round |-> 1, id |-> "C"], InvalidRound,
                NoCommit(2)),
     NewPrevote(Faulty, 2, 1, Hash([height |-> 2, round |-> 1, id |-> "C"])),
     NewPrecommit(Faulty, 2, 1, Hash([height |-> 2, round |-> 1, id |-> "C"]))}

\* the partition the faulty replica imposes: replica 1 hears round 0 only,
\* replica 0 hears no precommit, replica 3 hears of round 0 the precommits only
Hears(i, m) ==
    IF i = 1 THEN m.round = 0
    ELSE IF i = 0 THEN m.type # "precommit"
    ELSE m.round = 1 \/ m.type = "precommit"

Sends(s) == {s.broadcast[i] : i \in 1 .. Len(s.broadcast)}

\* the replica after an event: its messages are with the network, and the
\* tasks that sleep on are not kept
Settled(s) ==
    [Entering(s) EXCEPT
        !.timers = SetToBag({t \in BagToSet(@) : t.step = StepPrecommit})]

NetInit ==
    /\ replicas = [i \in Correct |-> Restored]
    /\ network = {}
    /\ p = New
    /\ sent = {}
    /\ calls = 0
    /\ mu = Free
    /\ running = {}
    /\ replica = << >>
    /\ disk = NoData

\* Replica.Run: Start
NetStart ==
    \E i \in Correct :
        /\ replicas[i].CurrentStep = StepNil
        /\ LET s == startRound(i, Entering(replicas[i]), replicas[i].CurrentRound)
           IN  /\ replicas' = [replicas EXCEPT ![i] = Settled(s)]
               /\ network' = network \cup Sends(s)
        /\ UNCHANGED <<p, sent, calls, mu, running, replica, disk>>

\* a message reaches a replica; a vote reaches it once, a proposal any
\* number of times
NetDeliver ==
    \E i \in Correct, m \in network \cup FaultyMessages :
        /\ replicas[i].CurrentStep # StepNil
        /\ Hears(i, m)
        /\ m.type = "prevote" => ~Contains(replicas[i].Prevotes, m)
        /\ m.type = "precommit" => ~Contains(replicas[i].Precommits, m)
        /\ LET s == HandleMessage(i, Entering(replicas[i]), m)
           IN  /\ replicas' = [replicas EXCEPT ![i] = Settled(s)]
               /\ network' = network \cup Sends(s)
        /\ UNCHANGED <<p, sent, calls, mu, running, replica, disk>>

\* the precommit timeout of a replica expires
NetTimeout ==
    \E i \in Correct :
        \E t \in BagToSet(replicas[i].timers) :
            /\ t.step = StepPrecommit
            /\ LET s0 == [Entering(replicas[i]) EXCEPT !.timers = @ (-) SetToBag({t})]
                   s == timeoutPrecommit(i, s0, t.height, t.round)
               IN  /\ replicas' = [replicas EXCEPT ![i] = Settled(s)]
                   /\ network' = network \cup Sends(s)
            /\ UNCHANGED <<p, sent, calls, mu, running, replica, disk>>

NetNext == NetStart \/ NetDeliver \/ NetTimeout

NetSpec == NetInit /\ [][NetNext]_vars

(***************************************************************************)
(* One process again, constructed from the state stored after height 1.   *)
(***************************************************************************)
StoredInit ==
    /\ p = Restored
    /\ sent = {}
    /\ calls = 0
    /\ replicas = << >>
    /\ network = {}
    /\ mu = Free
    /\ running = {}
    /\ replica = << >>
    /\ disk = NoData

\* The messages of the fourth environment: the proposals of rounds 0 and 1 of
\* height 2, each with the certificate of height 1 as startRound attaches
\* it, and precommits of (2, 0) of 2f+1 signatories of which no 2f+1 are for
\* the same hash.
SplitInputs ==
    {Proposal(2, 0, EnvBlock(2, "B"), InvalidRound, Certificate(EnvBlock(1, "B"), Others)),
     Proposal(2, 1, EnvBlock(2, "C"), InvalidRound, Certificate(EnvBlock(1, "B"), Others))}
    \cup {NewPrecommit(sg, 2, 0, Hash(EnvBlock(2, "B"))) : sg \in {0, 1}}
    \cup {NewPrecommit(sg, 2, 0, InvalidHash) : sg \in {2}}

\* the timeout tasks a process of this environment can start
TimeoutTasks ==
    [step : {StepPropose, StepPrevote, StepPrecommit}, height : {2},
     round : 0 .. MaxRound]

SplitNext == Start \/ OnMessage(SplitInputs) \/ OnTimeout

\* The process is constructed from the state stored after height 1, and no
\* caller starts rounds from outside.  Every timeout task that sleeps wakes
\* up in the end and gets the mutex: time.Sleep returns and sync.Mutex
\* starves no goroutine.
SplitSpec ==
    /\ StoredInit
    /\ [][SplitNext]_vars
    /\ \A t \in TimeoutTasks : WF_vars(Timeout(t))

(***************************************************************************)
(* The goroutines of one process.  One goroutine calls Start, others call  *)
(* HandleMessage and StartRound, and the timeout tasks wake up; mu is who   *)
(* holds Process.mu, and running is who is inside one of these functions.  *)
(* StartRound, HandleMessage and a timeout task Lock the mutex, run and     *)
(* Unlock as they return; Start calls startRound as it is.  What the       *)
(* holder of the mutex does is one step, for no other holder can see it in  *)
(* between; Start is followed in the two halves of startRound.  (The race   *)
(* detector would report more than these interleavings: the unsynchronised  *)
(* accesses of Start to the state are not ordered with the holder's at      *)
(* all.)                                                                    *)
(***************************************************************************)
\* the messages of the goroutines that call HandleMessage: round 0 of height 1
MutexInputs == {m \in RoundInputs : m.round = 0 /\ m.type # "precommit"}

\* the functions that take the mutex
Locking == {"StartRound", "HandleMessage", "timeout"}

\* Start is called: line 280
StartCalled ==
    /\ p.CurrentStep = StepNil
    /\ "Start" \notin running /\ "startRound" \notin running
    /\ running' = running \cup {"Start"}
    /\ UNCHANGED <<p, sent, calls, replicas, network, mu, replica, disk>>

\* Start reads the CurrentRound and startRound assigns the round and the
\* step: lines 281, 309-310
StartAssigns ==
    /\ "Start" \in running
    /\ p' = startRoundAssigns(Entering(p), p.CurrentRound)
    /\ running' = (running \ {"Start"}) \cup {"startRound"}
    /\ UNCHANGED <<sent, calls, replicas, network, mu, replica, disk>>

\* startRound proposes or starts the timeout task, and Start returns:
\* lines 312-350
StartReturns ==
    /\ "startRound" \in running
    /\ p' = startRoundProposes(Me, p)
    /\ running' = running \ {"startRound"}
    /\ UNCHANGED <<sent, calls, replicas, network, mu, replica, disk>>

\* p.mu.Lock() of StartRound, of HandleMessage or of a timeout task that woke up
Lock(op) ==
    /\ mu = Free
    /\ op \notin running
    /\ op = "timeout" => p.timers # EmptyBag
    /\ op = "StartRound" => calls < MaxStartRounds
    /\ op = "HandleMessage" => BagCardinality(p.timers) < MaxTimers
    /\ mu' = op
    /\ running' = running \cup {op}
    /\ UNCHANGED <<p, sent, calls, replicas, network, replica, disk>>

\* HandleMessage runs its handler and returns: the deferred p.mu.Unlock()
HandleMessageReturns ==
    /\ mu = "HandleMessage"
    /\ \E m \in MutexInputs : p' = HandleMessage(Me, Entering(p), m)
    /\ mu' = Free
    /\ running' = running \ {"HandleMessage"}
    /\ UNCHANGED <<sent, calls, replicas, network, replica, disk>>

StartRoundReturns ==
    /\ mu = "StartRound"
    /\ \E round \in Rounds : p' = startRound(Me, Entering(p), round)
    /\ calls' = calls + 1
    /\ mu' = Free
    /\ running' = running \ {"StartRound"}
    /\ UNCHANGED <<sent, replicas, network, replica, disk>>

TimeoutReturns ==
    /\ mu = "timeout"
    /\ \E t \in BagToSet(p.timers) :
          LET s == [Entering(p) EXCEPT !.timers = @ (-) SetToBag({t})]
          IN  /\ (t.step = StepPrecommit /\ t.height = p.CurrentHeight
                     /\ t.round = p.CurrentRound) => p.CurrentRound < MaxRound
              /\ p' = IF t.step = StepPropose THEN timeoutPropose(Me, s, t.height, t.round)
                      ELSE IF t.step = StepPrevote THEN timeoutPrevote(Me, s, t.height, t.round)
                      ELSE timeoutPrecommit(Me, s, t.height, t.round)
    /\ mu' = Free
    /\ running' = running \ {"timeout"}
    /\ UNCHANGED <<sent, calls, replicas, network, replica, disk>>

MutexNext ==
    \/ StartCalled \/ StartAssigns \/ StartReturns
    \/ \E op \in Locking : Lock(op)
    \/ HandleMessageReturns \/ StartRoundReturns \/ TimeoutReturns

MutexSpec == Init /\ [][MutexNext]_vars

(***************************************************************************)
(* The Run loop of one Replica.  The variable replica holds the fields of  *)
(* the Replica that the loop reads and writes: proc, procsAllowed, mq and   *)
(* the local isRunning, with cancelled for the context of Run.  The         *)
(* channels are the environment: any message of RunInputs may be the next   *)
(* one on onPropose, onPrevote or onPrecommit, and the timeouts on the      *)
(* timeout channels are the ones the process has scheduled.  events counts  *)
(* the iterations of the loop, callbacks the calls of didHandleMessage, log *)
(* is what the iteration under way has done, in order, taken the message    *)
(* taken last with height the CurrentHeight it was filtered against, and    *)
(* accepted the messages inserted into the queue so far.                    *)
(***************************************************************************)
MaxEvents == 6

\* a signatory that is not one of the signatories given to New
Stranger == NumSignatories

\* what arrives on the message channels: the proposal and the precommits of
\* (1, 0), a prevote of (1, 0), a prevote of (2, 0) that is early at height 1,
\* and a prevote signed by a stranger
RunInputs ==
    {Proposal(1, 0, EnvBlock(1, "B"), InvalidRound, NoCommit(1)),
     NewPrevote(0, 1, 0, Hash(EnvBlock(1, "B"))),
     NewPrevote(1, 2, 0, Hash(EnvBlock(2, "B"))),
     NewPrevote(Stranger, 1, 0, Hash(EnvBlock(1, "B")))}
    \cup {NewPrecommit(sg, 1, 0, Hash(EnvBlock(1, "B"))) : sg \in Others}

\* replica.New: the process, the map of the signatories and an empty queue
NewReplica ==
    [proc |-> New, procsAllowed |-> Signatories, mq |-> << >>,
     isRunning |-> TRUE, cancelled |-> FALSE,
     events |-> 0, callbacks |-> 0, log |-> << >>,
     taken |-> << >>, accepted |-> {}]

filterHeight(r, height) == height >= r.proc.CurrentHeight

\* filterFrom that lets every sender pass
allowEveryone(r, from) == TRUE

filterFrom(r, from) == from \in r.procsAllowed

\* mq.InsertPropose, InsertPrevote, InsertPrecommit: the queue is kept in
\* increasing order of height and round
InsertSorted(q, m) ==
    LET k == Cardinality({i \in 1 .. Len(q) :
                 \/ q[i].height < m.height
                 \/ q[i].height = m.height /\ q[i].round <= m.round})
    IN  SubSeq(q, 1, k) \o <<m>> \o SubSeq(q, k + 1, Len(q))

\* mq.Consume(height, propose, prevote, precommit): the messages of the
\* queue up to height are handed to the process in order; n is how many
RECURSIVE Consume(_, _, _)
Consume(height, q, proc) ==
    IF q = << >> \/ Head(q).height > height
    THEN [n |-> 0, mq |-> q, proc |-> proc]
    ELSE LET c == Consume(height, Tail(q), HandleMessage(Me, proc, Head(q)))
         IN  [c EXCEPT !.n = @ + 1]

RECURSIVE flush(_)
flush(r) ==
    LET c == Consume(r.proc.CurrentHeight, r.mq, r.proc)
    IN  IF c.n = 0 THEN r ELSE flush([r EXCEPT !.mq = c.mq, !.proc = c.proc])

\* the callback placed after replica.flush() and not deferred: the returns
\* of the select skip it
didHandleMessageAfterFlush(r) ==
    IF r.log[Len(r.log)] \in {"dropped", "done"}
    THEN r
    ELSE [r EXCEPT !.callbacks = @ + 1, !.log = Append(@, "didHandleMessage")]

\* the deferred function of an iteration: lines 105-109
didHandleMessage(r) ==
    [r EXCEPT !.callbacks = @ + 1, !.log = Append(@, "didHandleMessage")]

\* the loop takes one more event: lines 103-104
Taking(r) ==
    [r EXCEPT !.events = @ + 1, !.log = << >>, !.proc = Entering(@)]

\* case <-ctx.Done(): lines 112-114
selectDone(r) == [r EXCEPT !.isRunning = FALSE, !.log = Append(@, "done")]

\* the three timeout cases and the flush: lines 116-121, 149
selectTimeout(r, t) ==
    LET s == [r.proc EXCEPT !.timers = @ (-) SetToBag({t})]
        proc == IF t.step = StepPropose THEN timeoutPropose(Me, s, t.height, t.round)
                ELSE IF t.step = StepPrevote THEN timeoutPrevote(Me, s, t.height, t.round)
                ELSE timeoutPrecommit(Me, s, t.height, t.round)
    IN  flush([r EXCEPT !.proc = proc, !.log = Append(@, "timeout")])

\* the three message cases and the flush: lines 123-149
selectMessage(r, m) ==
    LET t == [r EXCEPT !.taken = [m |-> m, height |-> r.proc.CurrentHeight]]
    IN  IF ~filterHeight(t, m.height)
        THEN [t EXCEPT !.log = Append(@, "dropped")]
        ELSE IF ~filterFrom(t, m.sig)
        THEN [t EXCEPT !.log = Append(@, "dropped")]
        ELSE flush([t EXCEPT !.mq = InsertSorted(@, m),
                             !.accepted = @ \cup {m},
                             !.log = Append(@, "inserted")])

RunInit ==
    /\ p = New
    /\ sent = {}
    /\ calls = 0
    /\ replicas = << >>
    /\ network = {}
    /\ mu = Free
    /\ running = {}
    /\ replica = NewReplica
    /\ disk = NoData

RunFrame == <<p, sent, calls, replicas, network, mu, running, disk>>

\* replica.proc.Start(): line 100
RunStart ==
    /\ replica.proc.CurrentStep = StepNil
    /\ replica' = [replica EXCEPT
                      !.proc = startRound(Me, Entering(@), @.CurrentRound)]
    /\ UNCHANGED RunFrame

\* the caller of Run cancels the context
Cancel ==
    /\ ~replica.cancelled
    /\ replica' = [replica EXCEPT !.cancelled = TRUE]
    /\ UNCHANGED RunFrame

Looping ==
    /\ replica.proc.CurrentStep # StepNil
    /\ replica.isRunning

\* one iteration that finds the context cancelled
RunDone ==
    /\ Looping
    /\ replica.cancelled
    /\ replica' = didHandleMessage(selectDone(Taking(replica)))
    /\ UNCHANGED RunFrame

\* one iteration that takes a timeout
RunTimeout ==
    /\ Looping
    /\ replica.events < MaxEvents
    /\ \E t \in BagToSet(replica.proc.timers) :
          /\ (t.step = StepPrecommit /\ t.height = replica.proc.CurrentHeight
                 /\ t.round = replica.proc.CurrentRound)
                => replica.proc.CurrentRound < MaxRound
          /\ replica' = didHandleMessage(selectTimeout(Taking(replica), t))
    /\ UNCHANGED RunFrame

\* one iteration that takes a message
RunMessage ==
    /\ Looping
    /\ replica.events < MaxEvents
    /\ BagCardinality(replica.proc.timers) < MaxTimers
    /\ \E m \in RunInputs :
          replica' = didHandleMessage(selectMessage(Taking(replica), m))
    /\ UNCHANGED RunFrame

RunNext == RunStart \/ Cancel \/ RunDone \/ RunTimeout \/ RunMessage

RunSpec == RunInit /\ [][RunNext]_vars

(***************************************************************************)
(* Four replicas at height 1 of which the proposer of round 0 is silent:   *)
(* it sends nothing.  The other three run the process; Broadcast reaches   *)
(* every replica, the sender included, in any order.  The behaviours are   *)
(* followed through round 0: the messages and the timeout tasks of round 0 *)
(* are handled, those of round 1 are left where they are.                  *)
(***************************************************************************)
Silent == Schedule(1, 0)

Live == Signatories \ {Silent}

SilentInit ==
    /\ replicas = [i \in Live |-> New]
    /\ network = {}
    /\ p = New
    /\ sent = {}
    /\ calls = 0
    /\ mu = Free
    /\ running = {}
    /\ replica = << >>
    /\ disk = NoData

\* Replica.Run of replica i: Start
SilentStart(i) ==
    /\ replicas[i].CurrentStep = StepNil
    /\ LET s == startRound(i, Entering(replicas[i]), replicas[i].CurrentRound)
       IN  /\ replicas' = [replicas EXCEPT ![i] = Entering(s)]
           /\ network' = network \cup Sends(s)
    /\ UNCHANGED <<p, sent, calls, mu, running, replica, disk>>

\* the message m of round 0 reaches replica i, once
SilentDeliver(i, m) ==
    /\ m \in network
    /\ m.round = 0
    /\ replicas[i].CurrentStep # StepNil
    /\ m.type = "propose" => ~Contains(replicas[i].Proposals, m)
    /\ m.type = "prevote" => ~Contains(replicas[i].Prevotes, m)
    /\ m.type = "precommit" => ~Contains(replicas[i].Precommits, m)
    /\ LET s == HandleMessage(i, Entering(replicas[i]), m)
       IN  /\ replicas' = [replicas EXCEPT ![i] = Entering(s)]
           /\ network' = network \cup Sends(s)
    /\ UNCHANGED <<p, sent, calls, mu, running, replica, disk>>

\* the timeout task t of round 0 of replica i wakes up
SilentTimeout(i, t) ==
    /\ t \in BagToSet(replicas[i].timers)
    /\ t.round = 0
    /\ LET s0 == [Entering(replicas[i]) EXCEPT !.timers = @ (-) SetToBag({t})]
           s == IF t.step = StepPropose THEN timeoutPropose(i, s0, t.height, t.round)
                ELSE IF t.step = StepPrevote THEN timeoutPrevote(i, s0, t.height, t.round)
                ELSE timeoutPrecommit(i, s0, t.height, t.round)
       IN  /\ replicas' = [replicas EXCEPT ![i] = Entering(s)]
           /\ network' = network \cup Sends(s)
    /\ UNCHANGED <<p, sent, calls, mu, running, replica, disk>>

\* what the three replicas can send in round 0
SilentVotes ==
    {NewPrevote(i, 1, 0, InvalidHash) : i \in Live}
    \cup {NewPrecommit(i, 1, 0, InvalidHash) : i \in Live}

SilentNext ==
    \E i \in Live :
        \/ SilentStart(i)
        \/ \E m \in network : SilentDeliver(i, m)
        \/ \E t \in BagToSet(replicas[i].timers) : SilentTimeout(i, t)

SilentSpec == SilentInit /\ [][SilentNext]_vars

(***************************************************************************)
(* The properties.                                                         *)
(***************************************************************************)
Broadcasts(s, m) == \E i \in 1 .. Len(s.broadcast) : s.broadcast[i] = m

Unlocked(s) ==
    /\ s.LockedBlock = InvalidBlock /\ s.LockedRound = InvalidRound
    /\ s.ValidBlock = InvalidBlock /\ s.ValidRound = InvalidRound

\* a valid block with precommits of at least 2f+1 distinct genesis
\* signatories, all of them for the block's hash, height and round
ValidBundle(latestCommit) ==
    /\ IsBlockValid(latestCommit.Block, FALSE)
    /\ \A c \in latestCommit.Precommits :
          /\ c.verifies
          /\ c.sig \in GenesisSignatories
          /\ c.blockHash = Hash(latestCommit.Block)
          /\ c.height = latestCommit.Block.height
          /\ c.round = latestCommit.Block.round
    /\ Cardinality({c.sig : c \in latestCommit.Precommits}) >= 2 * F + 1

CatchUpProposes == {m \in CatchUpInputs : m.type = "propose"}

\* C1: no two correct replicas persist different blocks at the same height.
C1_Agreement ==
    \A i, j \in DOMAIN replicas :
        \A h \in DOMAIN replicas[i].blockchain \cap DOMAIN replicas[j].blockchain :
            replicas[i].blockchain[h] = replicas[j].blockchain[h]

\* C2: across every event (message, timeout, StartRound) the CurrentHeight of
\* a process never decreases.
C2_HeightNeverDecreases == [][p'.CurrentHeight >= p.CurrentHeight]_vars

\* C3: when a started process handles a Propose whose latestCommit holds a
\* valid block of a height K above its CurrentHeight with precommits of at
\* least 2f+1 distinct genesis signatories, all matching the block, then
\* after the handler the block is persisted at K and the process is at height
\* K+1, round 0, with its locked and valid block and round reset.
C3_CatchUpFromTheFuture ==
    \A m \in CatchUpProposes :
        (/\ p.CurrentStep # StepNil
         /\ ValidBundle(m.latestCommit)
         /\ m.latestCommit.Block.height > p.CurrentHeight)
        => LET s == handlePropose(Me, Entering(p), m)
               K == m.latestCommit.Block.height
           IN  /\ BlockExistsAtHeight(s, K)
               /\ BlockAtHeight(s, K) = m.latestCommit.Block
               /\ s.CurrentHeight = K + 1
               /\ s.CurrentRound = 0
               /\ Unlocked(s)

\* C4: when the latestCommit of a Propose holds a block of a height at or below
\* the CurrentHeight of the process, syncLatestCommit changes nothing, whatever
\* precommits the bundle holds.
C4_CatchUpIgnoresThePast ==
    \A m \in CatchUpProposes :
        (p.CurrentStep # StepNil /\ m.latestCommit.Block.height <= p.CurrentHeight)
        => syncLatestCommit(Me, Entering(p), m.latestCommit) = Entering(p)

\* C5: a process never broadcasts two prevotes, or two precommits, for
\* different blocks at the same height and round; here even where StartRound
\* is never called from outside.
C5_NoEquivocation ==
    calls = 0 =>
        \A x, y \in sent :
            (x.type = y.type /\ x.height = y.height /\ x.round = y.round)
            => x.blockHash = y.blockHash

\* C6: while the CurrentHeight stays the same the LockedRound never decreases,
\* and the LockedBlock changes only when the LockedRound increases; here even
\* where StartRound is never called from outside.
C6_NoLockDowngrade ==
    [][(calls' = 0 /\ p'.CurrentHeight = p.CurrentHeight)
       => /\ p'.LockedRound >= p.LockedRound
          /\ p'.LockedBlock # p.LockedBlock => p'.LockedRound > p.LockedRound]_vars

\* C7: a process in step Propose that is locked, and handles a Propose of the
\* scheduled proposer for its height and round with validRound = -1 and a
\* block other than its LockedBlock, broadcasts a nil Prevote for that height
\* and round, no Prevote for the block, and leaves step Propose.
C7_LockedPrevotesNil ==
    \A m \in CatchUpProposes :
        (/\ p.CurrentStep = StepPropose
         /\ p.LockedRound # InvalidRound
         /\ m.height = p.CurrentHeight /\ m.round = p.CurrentRound
         /\ m.sig = Schedule(p.CurrentHeight, p.CurrentRound)
         /\ m.validRound = InvalidRound
         /\ m.block # p.LockedBlock)
        => LET s == handlePropose(Me, Entering(p), m)
           IN  /\ Broadcasts(s, NewPrevote(Me, p.CurrentHeight, p.CurrentRound, InvalidHash))
               /\ ~Broadcasts(s, NewPrevote(Me, p.CurrentHeight, p.CurrentRound, Hash(m.block)))
               /\ s.CurrentStep # StepPropose \/ s.CurrentHeight > p.CurrentHeight

\* C8: a process in step Propose at round r that holds more than 2f prevotes
\* for a block at (CurrentHeight, validRound), and handles the Propose of the
\* scheduled proposer for (CurrentHeight, r) with that block and
\* 0 <= validRound < r, broadcasts a Prevote for the block if the block is
\* valid and LockedRound <= validRound or LockedBlock = block, a nil Prevote
\* otherwise, and leaves step Propose.
C8_RelockOnProofOfLock ==
    \A m \in CatchUpProposes :
        (/\ p.CurrentStep = StepPropose
         /\ m.height = p.CurrentHeight /\ m.round = p.CurrentRound
         /\ m.sig = Schedule(p.CurrentHeight, p.CurrentRound)
         /\ m.validRound >= 0 /\ m.validRound < p.CurrentRound
         /\ ~Contains(p.Proposals, m)
         /\ QueryByHeightRoundBlockHash(p.Prevotes, p.CurrentHeight, m.validRound,
                                        Hash(m.block)) > 2 * F)
        => LET s == handlePropose(Me, Entering(p), m)
               blockHash == IF /\ IsBlockValid(m.block, TRUE)
                               /\ \/ p.LockedRound <= m.validRound
                                  \/ p.LockedBlock = m.block
                            THEN Hash(m.block)
                            ELSE InvalidHash
           IN  /\ Broadcasts(s, NewPrevote(Me, p.CurrentHeight, p.CurrentRound, blockHash))
               /\ s.CurrentStep # StepPropose \/ s.CurrentHeight > p.CurrentHeight

\* C9: an event that starts no round never moves the CurrentStep back to an
\* earlier step: between two round starts the step only moves forward.
C9_StepOnlyMovesForward ==
    [][p'.started = << >> => p'.CurrentStep >= p.CurrentStep]_vars

\* a catch-up reset the process to step Propose of round 0 and the same event
\* moved it on to step Prevote; later events without a round start moved it
\* to step Precommit
C9_Witness ==
    /\ p.CurrentHeight = 2 /\ p.CurrentRound = 0
    /\ p.started = << >>
    /\ p.CurrentStep = StepPrecommit
    /\ p.LockedRound = 0

\* C10: an event during which the commit rule fires for a block B at height h
\* leaves B persisted at h, B being the block of the scheduled proposer's
\* Propose of a round of h with more than 2f precommits for it, and leaves the
\* process at height h+1, round 0, step Propose, with its locked and valid
\* block and round reset.
C10_CommitPostState ==
    [][Len(p'.observed) > Len(p.observed)
       => LET h == p'.observed[Len(p'.observed)]
          IN  /\ Len(p'.observed) = Len(p.observed) + 1
              /\ ~BlockExistsAtHeight(p, h)
              /\ BlockExistsAtHeight(p', h)
              /\ \E m \in p'.Proposals :
                    /\ m.height = h
                    /\ m.sig = Schedule(h, m.round)
                    /\ m.block = BlockAtHeight(p', h)
                    /\ QueryByHeightRoundBlockHash(p'.Precommits, h, m.round,
                                                   Hash(m.block)) > 2 * F
              /\ p'.CurrentHeight = h + 1
              /\ p'.CurrentRound = 0
              /\ p'.CurrentStep = StepPropose
              /\ Unlocked(p')]_vars

\* the happy path of height 1 as one participant sees it: the proposer's
\* block B got its prevotes and its precommits, the process locked it, then
\* persisted it, told the observer and entered (2, 0, Propose)
C10_Witness ==
    /\ p.observed = <<1>>
    /\ BlockExistsAtHeight(p, 1) /\ BlockAtHeight(p, 1) = EnvBlock(1, "B")
    /\ p.CurrentHeight = 2 /\ p.CurrentRound = 0 /\ p.CurrentStep = StepPropose
    /\ Unlocked(p)
    /\ NewPrecommit(Me, 1, 0, Hash(EnvBlock(1, "B"))) \in sent

\* C11: the Observer is told of every commit exactly once.  An event calls
\* DidCommitBlock at most once, with a height at which no block was stored
\* before the event and one is stored after it; whenever the commit rule,
\* run in the state an event left, persists a block at the CurrentHeight, it
\* calls DidCommitBlock once with that height, and it calls it in no other
\* case; and no height is ever reported twice.
C11_NotifiedOncePerCommit ==
    /\ [](\A i, j \in 1 .. Len(p.observed) :
            p.observed[i] = p.observed[j] => i = j)
    /\ [](\A round \in Rounds :
            LET s == checkProposeInCurrentHeightWithPrecommits(Me, Entering(p), round)
            IN  IF /\ ~BlockExistsAtHeight(p, p.CurrentHeight)
                   /\ BlockExistsAtHeight(s, p.CurrentHeight)
                THEN s.observed = Append(p.observed, p.CurrentHeight)
                ELSE s.observed = p.observed)
    /\ [][p'.observed # p.observed
          => \E h \in 1 .. p.CurrentHeight :
                /\ p'.observed = Append(p.observed, h)
                /\ ~BlockExistsAtHeight(p, h)
                /\ BlockExistsAtHeight(p', h)]_vars

\* the process reported height 2, went on to height 3 and was taken back to
\* height 2 by the proposal of round 1: the messages of the decided round are
\* in its tallies and its block is stored, and nothing is reported again
C11_Witness ==
    /\ p.observed = <<2>>
    /\ p.CurrentHeight = 2
    /\ BlockExistsAtHeight(p, 2)
    /\ QueryByHeightRoundBlockHash(p.Precommits, 2, 0, Hash(EnvBlock(2, "B"))) > 2 * F
    /\ QueryByHeightRoundSignatory(p.Proposals, 2, 0, Schedule(2, 0)) # {}

\* more than 2f precommits at (height, round), and of no hash more than 2f
SplitQuorum(s, height, round) ==
    /\ Cardinality(AtHeightRound(s.Precommits, height, round)) > 2 * F
    /\ \A x \in AtHeightRound(s.Precommits, height, round) :
          QueryByHeightRoundBlockHash(s.Precommits, height, round, BlockHashOf(x)) <= 2 * F

\* C12: a started process at (h, r) that holds more than 2f precommits of
\* (h, r), of no hash more than 2f, has stored no block at h and, every
\* timeout task waking up in the end, comes to round r+1.
C12_SplitQuorumMovesOn ==
    /\ [](p.CurrentStep # StepNil /\ SplitQuorum(p, p.CurrentHeight, p.CurrentRound)
          => ~BlockExistsAtHeight(p, p.CurrentHeight))
    /\ \A r \in 0 .. (MaxRound - 1) :
          (p.CurrentStep # StepNil /\ p.CurrentHeight = 2 /\ p.CurrentRound = r
              /\ SplitQuorum(p, 2, r))
          ~> (p.CurrentHeight = 2 /\ p.CurrentRound = r + 1)

\* the tally of the type of the message
TallyOf(s, m) ==
    IF m.type = "propose" THEN s.Proposals
    ELSE IF m.type = "prevote" THEN s.Prevotes
    ELSE s.Precommits

\* C14: when a started process handles a message m of its CurrentHeight and
\* of a round above its CurrentRound that raises the number of messages of
\* its type at (m.height, m.round) above f, it is, when the handler returns,
\* at the same height in round m.round and step Propose, and has broadcast
\* no Prevote and no Precommit of round m.round; and handling a vote of
\* another height, or of a round at or below the CurrentRound, leaves the
\* CurrentRound as it is.
C14_SkipAheadStops ==
    \A m \in SkipInputs :
        LET s == HandleMessage(Me, Entering(p), m)
        IN  /\ (/\ p.CurrentStep # StepNil
                /\ ~Contains(TallyOf(p, m), m)
                /\ Cardinality(AtHeightRound(TallyOf(p, m), m.height, m.round)) = F
                /\ m.height = p.CurrentHeight
                /\ m.round > p.CurrentRound)
               => /\ s.CurrentHeight = p.CurrentHeight
                  /\ s.CurrentRound = m.round
                  /\ s.CurrentStep = StepPropose
                  /\ \A i \in 1 .. Len(s.broadcast) :
                        s.broadcast[i].type = "propose" \/ s.broadcast[i].round # m.round
            /\ (/\ p.CurrentStep # StepNil
                /\ m.type # "propose"
                /\ m.height # p.CurrentHeight \/ m.round <= p.CurrentRound)
               => s.CurrentRound = p.CurrentRound

\* the message is in the tally of its type
Tallied(s, m) ==
    IF m.type = "propose" THEN Contains(s.Proposals, m)
    ELSE IF m.type = "prevote" THEN Contains(s.Prevotes, m)
    ELSE Contains(s.Precommits, m)

\* the timeout tasks of round 0 that sleep
SleepingInRound0(s) ==
    BagCardinality([t \in {x \in BagToSet(s.timers) : x.round = 0} |-> s.timers[t]])

\* a bound on the steps of round 0 replica i has left: its start and every
\* delivery can start one timeout task
StepsLeft(i) ==
    (IF replicas[i].CurrentStep = StepNil THEN 2 ELSE 0)
    + 2 * Cardinality({m \in SilentVotes : ~Tallied(replicas[i], m)})
    + SleepingInRound0(replicas[i])

RECURSIVE Sum(_, _)
Sum(f(_), S) ==
    IF S = {} THEN 0
    ELSE LET x == CHOOSE y \in S : TRUE IN f(x) + Sum(f, S \ {x})

\* round 0 is over: every replica runs, has every message of round 0 that
\* was broadcast, and none of its timeout tasks of round 0 sleeps
Round0Over ==
    \A i \in Live :
        /\ replicas[i].CurrentStep # StepNil
        /\ \A m \in network : m.round = 0 => Tallied(replicas[i], m)
        /\ SleepingInRound0(replicas[i]) = 0

\* C13: with the proposer of round 0 silent, the three other replicas vote
\* nothing but nil in round 0, lock nothing and store nothing at height 1;
\* every step of round 0 uses up one of a bounded number of steps, so that
\* under any delivery order round 0 comes to its end once every message is
\* delivered and every timeout task woke up; and at that end each replica
\* has broadcast its nil prevote and its nil precommit and is in round 1 of
\* height 1, unlocked, no block stored.
C13_SilentProposer ==
    /\ [](\A m \in network : m.round = 0 => m \in SilentVotes)
    /\ [](\A i \in Live :
            /\ replicas[i].CurrentHeight = 1
            /\ ~BlockExistsAtHeight(replicas[i], 1)
            /\ replicas[i].LockedBlock = InvalidBlock
            /\ replicas[i].CurrentRound <= 1)
    /\ [][Sum(StepsLeft, Live)' < Sum(StepsLeft, Live)]_vars
    /\ [](Round0Over
          => \A i \in Live :
                /\ NewPrevote(i, 1, 0, InvalidHash) \in network
                /\ NewPrecommit(i, 1, 0, InvalidHash) \in network
                /\ replicas[i].CurrentRound = 1)

\* the three replicas are in round 1 of height 1, unlocked, all of them by
\* their precommit timeout, round 0 is over, and the proposer of round 1 has
\* proposed
C13_Witness ==
    /\ Round0Over
    /\ \A i \in Live :
          /\ replicas[i].CurrentHeight = 1 /\ replicas[i].CurrentRound = 1
          /\ replicas[i].LockedBlock = InvalidBlock
          /\ Cardinality(AtHeightRound(replicas[i].Precommits, 1, 0)) > 2 * F
    /\ \E m \in network : m.type = "propose" /\ m.round = 1 /\ m.sig = Schedule(1, 1)

\* C15: every operation that is inside the engine holds the mutex, so that
\* no two operations are inside it at once: not Start and HandleMessage, and
\* not Start and a timeout task.
C15_MutualExclusion ==
    /\ \A op \in running : mu = op
    /\ Cardinality(running) <= 1

\* C16: in every reachable state the locked round is InvalidRound exactly
\* when the locked block is the empty block, and the valid round is
\* InvalidRound exactly when the valid block is the empty block.
C16_LockBookkeeping ==
    /\ p.LockedRound = InvalidRound <=> p.LockedBlock = InvalidBlock
    /\ p.ValidRound = InvalidRound <=> p.ValidBlock = InvalidBlock

\* the process has locked the block of round 0 and has since moved to a
\* later round with the lock in place
C16_Witness ==
    /\ p.LockedRound = 0 /\ p.LockedBlock = EnvBlock(1, "B")
    /\ p.ValidRound = 0 /\ p.ValidBlock = EnvBlock(1, "B")
    /\ p.CurrentHeight = 1 /\ p.CurrentRound > 0
    /\ NewPrecommit(Me, 1, 0, Hash(EnvBlock(1, "B"))) \in sent

\* C17: in every state reached through message and timeout handling a
\* locked round is at most the current round.
C17_LockedRoundAtMostCurrent ==
    p.LockedRound # InvalidRound => p.LockedRound <= p.CurrentRound

\* the process locked in round 0 and skipped ahead to round 2, where it has
\* prevoted with the lock of round 0 in place
C17_Witness ==
    /\ p.CurrentHeight = 1 /\ p.CurrentRound = 2
    /\ p.LockedRound = 0 /\ p.LockedBlock = EnvBlock(1, "B")
    /\ p.CurrentStep = StepPrevote

\* what a dropped message leaves as it was: height, round, step, lock and
\* valid block, the tallies, the blockchain and the sleeping timeout tasks,
\* with nothing broadcast, no round started and nobody notified
Dropped(s, t) ==
    /\ t.CurrentHeight = s.CurrentHeight /\ t.CurrentRound = s.CurrentRound
    /\ t.CurrentStep = s.CurrentStep
    /\ t.LockedBlock = s.LockedBlock /\ t.LockedRound = s.LockedRound
    /\ t.ValidBlock = s.ValidBlock /\ t.ValidRound = s.ValidRound
    /\ t.Proposals = s.Proposals /\ t.Prevotes = s.Prevotes
    /\ t.Precommits = s.Precommits
    /\ t.broadcast = << >> /\ t.started = << >>
    /\ t.timers = s.timers
    /\ t.blockchain = s.blockchain /\ t.observed = s.observed

\* C18: in whatever state it arrives, a message that is in its tally
\* already is dropped: HandleMessage leaves the height, the round, the step,
\* the lock, the valid block and the tallies as they are, broadcasts
\* nothing, schedules no timeout and commits nothing.
C18_DuplicatesDropped ==
    \A m \in p.Proposals \cup p.Prevotes \cup p.Precommits :
        Dropped(Entering(p), HandleMessage(Me, Entering(p), m))

\* the messages of a sequence
Range(q) == {q[i] : i \in 1 .. Len(q)}

\* the iteration under way took a message and dropped it, or inserted it
Filtered(r, outcome) == r.log # << >> /\ r.log[1] = outcome

\* C19: a message the Run loop takes is dropped exactly when its sender is
\* not one of the signatories given at construction or its height is below
\* the process's CurrentHeight at that moment; a dropped message leaves the
\* queue and the process as they are; and every message in the queue or in
\* a tally of the process was inserted with both conditions met.
C19_ReplicaFilters ==
    /\ [](Filtered(replica, "dropped") <=>
            /\ Filtered(replica, "dropped") \/ Filtered(replica, "inserted")
            /\ \/ replica.taken.m.sig \notin Signatories
               \/ replica.taken.m.height < replica.taken.height)
    /\ [](\A m \in replica.accepted : m.sig \in Signatories)
    /\ [](Range(replica.mq) \cup replica.proc.Proposals \cup replica.proc.Prevotes
            \cup replica.proc.Precommits \subseteq replica.accepted)
    /\ [][(replica'.events > replica.events /\ Filtered(replica', "dropped"))
            => /\ replica'.mq = replica.mq
               /\ replica'.proc = Entering(replica.proc)
               /\ replica'.accepted = replica.accepted]_vars
    /\ [][(replica'.events > replica.events /\ Filtered(replica', "inserted"))
            => /\ replica'.accepted = replica.accepted \cup {replica'.taken.m}
               /\ replica'.taken.m.height >= replica.proc.CurrentHeight]_vars

\* a message of height 1 that was inserted while the process was at height 1
\* is taken again at height 2, after the commit of height 1, and dropped
C19_Witness ==
    /\ Filtered(replica, "dropped")
    /\ replica.taken.m \in replica.accepted
    /\ replica.taken.m.height = 1 /\ replica.taken.height = 2
    /\ replica.proc.CurrentHeight = 2
    /\ BlockExistsAtHeight(replica.proc, 1)

\* C20: didHandleMessage is called exactly once for every event the Run
\* loop takes, as the last thing of the iteration: for a message that was
\* inserted and for one that was dropped, for a timeout, and for the
\* iteration that finds the context cancelled, after which Run has returned
\* and takes no further event.
C20_CalledOncePerEvent ==
    /\ [](replica.callbacks = replica.events)
    /\ [](replica.log # << >> =>
            /\ Len(replica.log) = 2
            /\ replica.log[1] \in {"inserted", "dropped", "timeout", "done"}
            /\ replica.log[2] = "didHandleMessage")
    /\ [][replica'.events \in {replica.events, replica.events + 1}]_vars
    /\ [](Filtered(replica, "done") <=> ~replica.isRunning)
    /\ [][~replica.isRunning => replica' = replica]_vars

\* Run has returned: it took MaxEvents events, among them messages that were
\* inserted and, as the last message, one that was dropped and never
\* inserted, and then the cancelled context, each followed by the callback
C20_Witness ==
    /\ ~replica.isRunning
    /\ replica.log = <<"done", "didHandleMessage">>
    /\ replica.events = MaxEvents + 1
    /\ replica.callbacks = MaxEvents + 1
    /\ replica.accepted # {}
    /\ replica.taken # << >> /\ replica.taken.m \notin replica.accepted

Certified(s, h) ==
    {m \in s.Proposals :
        /\ m.height = h /\ m.sig = Schedule(h, m.round)
        /\ Cardinality({c \in s.Precommits :
                            /\ c.height = h /\ c.round = m.round
                            /\ c.blockHash = Hash(m.block)}) > 2 * F}

\* C22: the commit rule stores a block at CurrentHeight only when no block
\* is stored there and the tallies hold the proposal of the scheduled
\* proposer of (CurrentHeight, round) for a valid block with more than 2F
\* precommits of that round for the hash of that very block, and the block
\* it stores is that block; precommits for another hash or for nil do not
\* count.
C22_CommitCertificate ==
    /\ [](\A round \in Rounds :
            LET s == checkProposeInCurrentHeightWithPrecommits(Me, Entering(p), round)
                certified == {m \in Certified(p, p.CurrentHeight) :
                                 m.round = round /\ IsBlockValid(m.block, TRUE)}
            IN  IF certified # {} /\ ~BlockExistsAtHeight(p, p.CurrentHeight)
                THEN /\ BlockExistsAtHeight(s, p.CurrentHeight)
                     /\ \E m \in certified : BlockAtHeight(s, p.CurrentHeight) = m.block
                     /\ s.CurrentHeight = p.CurrentHeight + 1
                ELSE s = Entering(p))
    /\ [][p'.blockchain # p.blockchain
          => /\ ~BlockExistsAtHeight(p, p.CurrentHeight)
             /\ p'.blockchain = InsertBlockAtHeight(p, p.CurrentHeight,
                                    BlockAtHeight(p', p.CurrentHeight)).blockchain
             /\ \E m \in Certified(p', p.CurrentHeight) :
                    /\ m.block = BlockAtHeight(p', p.CurrentHeight)
                    /\ IsBlockValid(m.block, TRUE)]_vars

\* B is stored at height 1 on three precommits for B while the tallies also
\* hold the proposal for C of the signatory that is not scheduled and a
\* precommit for C
C22_Witness ==
    /\ BlockExistsAtHeight(p, 1) /\ BlockAtHeight(p, 1) = EnvBlock(1, "B")
    /\ p.CurrentHeight = 2
    /\ NewPropose(1, 1, 0, EnvBlock(1, "C"), InvalidRound, NoCommit(1)) \in p.Proposals
    /\ NewPrecommit(2, 1, 0, Hash(EnvBlock(1, "C"))) \in p.Precommits
    /\ NewPrecommit(Me, 1, 0, Hash(EnvBlock(1, "B"))) \in p.Precommits

\* the proposals of the scheduled proposer of the current height and round of
\* s for a valid block with more than 2F prevotes of that round for its hash
PrevoteQuorum(s) ==
    {m \in s.Proposals :
        /\ m.height = s.CurrentHeight /\ m.round = s.CurrentRound
        /\ m.sig = Schedule(s.CurrentHeight, s.CurrentRound)
        /\ IsBlockValid(m.block, TRUE)
        /\ Cardinality({v \in s.Prevotes :
                            /\ v.height = s.CurrentHeight /\ v.round = s.CurrentRound
                            /\ v.blockHash = Hash(m.block)}) > 2 * F}

\* C23: when HandleMessage returns with the process in step Prevote or
\* Precommit and its tallies holding, for its current height and round, the
\* scheduled proposer's proposal for a valid block B and more than 2F
\* prevotes for the hash of B, then ValidBlock = B and ValidRound =
\* CurrentRound; and when that quorum became complete in this call, which the
\* process entered in step Prevote of the same height and round, it has
\* locked B in CurrentRound, is in step Precommit and has broadcast its
\* precommit for B.
C23_LockOnPrevoteQuorum ==
    [][(\E msg \in SkipInputs : p' = HandleMessage(Me, Entering(p), msg))
       => \A m \in PrevoteQuorum(p') :
            /\ p'.CurrentStep >= StepPrevote
                  => p'.ValidBlock = m.block /\ p'.ValidRound = p'.CurrentRound
            /\ (/\ PrevoteQuorum(p) = {}
                /\ p.CurrentStep = StepPrevote
                /\ p.CurrentHeight = p'.CurrentHeight
                /\ p.CurrentRound = p'.CurrentRound)
                  => /\ p'.LockedBlock = m.block
                     /\ p'.LockedRound = p'.CurrentRound
                     /\ p'.CurrentStep = StepPrecommit
                     /\ \E i \in DOMAIN p'.broadcast :
                            p'.broadcast[i] = NewPrecommit(Me, p'.CurrentHeight,
                                                p'.CurrentRound, Hash(m.block))]_vars

\* the state the timeout task of timer t starts its handler with
Woken(t) == [Entering(p) EXCEPT !.timers = @ (-) SetToBag({t})]

\* C24: a propose timeout stamped (h, r) that fires changes nothing and
\* broadcasts nothing unless h = CurrentHeight, r = CurrentRound and the step
\* is Propose, and then it broadcasts a nil prevote and sets step Prevote and
\* nothing else; a prevote timeout does the same with step Prevote, a nil
\* precommit and step Precommit; a precommit timeout changes nothing unless
\* h = CurrentHeight and r = CurrentRound, and then it starts round
\* CurrentRound + 1 whatever the step.
C24_StaleTimeoutsAreNoOps ==
    [][\A t \in BagToSet(p.timers) :
        Timeout(t) =>
          LET current == t.height = p.CurrentHeight /\ t.round = p.CurrentRound
          IN  /\ (t.step = StepPropose /\ current /\ p.CurrentStep = StepPropose)
                    => p' = [Woken(t) EXCEPT
                                !.CurrentStep = StepPrevote,
                                !.broadcast = <<NewPrevote(Me, p.CurrentHeight,
                                                  p.CurrentRound, InvalidHash)>>]
              /\ (t.step = StepPropose /\ ~(current /\ p.CurrentStep = StepPropose))
                    => p' = Woken(t) /\ p'.broadcast = << >> /\ sent' = sent
              /\ (t.step = StepPrevote /\ current /\ p.CurrentStep = StepPrevote)
                    => p' = [Woken(t) EXCEPT
                                !.CurrentStep = StepPrecommit,
                                !.broadcast = <<NewPrecommit(Me, p.CurrentHeight,
                                                  p.CurrentRound, InvalidHash)>>]
              /\ (t.step = StepPrevote /\ ~(current /\ p.CurrentStep = StepPrevote))
                    => p' = Woken(t) /\ p'.broadcast = << >> /\ sent' = sent
              /\ (t.step = StepPrecommit /\ current)
                    => /\ p'.CurrentHeight = p.CurrentHeight
                       /\ p'.CurrentRound = p.CurrentRound + 1
                       /\ p'.CurrentStep = StepPropose
                       /\ p'.started = <<p.CurrentRound + 1>>
              /\ (t.step = StepPrecommit /\ ~current)
                    => p' = Woken(t) /\ p'.broadcast = << >> /\ sent' = sent]_vars

\* at (1, 0) the process prevoted B on the proposal, so it left step Propose
\* before its propose timeout fired, and no timer is left: the propose
\* timeout of (1, 0) fired in step Prevote or Precommit
C24_Witness ==
    /\ p.CurrentHeight = 1 /\ p.CurrentRound = 0
    /\ p.CurrentStep = StepPrecommit /\ p.LockedRound = 0
    /\ NewPrevote(Me, 1, 0, Hash(EnvBlock(1, "B"))) \in sent
    /\ p.timers = EmptyBag

\* a bundle with one of the defects the catch-up routine rejects
Malformed(latestCommit) ==
    \/ ~IsBlockValid(latestCommit.Block, FALSE)
    \/ \E commit \in latestCommit.Precommits :
          \/ ~commit.verifies
          \/ commit.sig \notin 0 .. NumSignatories - 1
          \/ commit.blockHash # Hash(latestCommit.Block)
          \/ commit.height # latestCommit.Block.height
          \/ commit.round # latestCommit.Block.round
    \/ Cardinality({commit.sig : commit \in latestCommit.Precommits}) < 2 * F + 1

\* C25: a bundle whose block is invalid, or with a precommit that does not
\* verify, is signed by a signatory outside the genesis set or is for
\* another hash, height or round than the block, or with fewer than 2F + 1
\* distinct signatories, is rejected by the catch-up routine with no effect:
\* no block is stored and the height, round, step, lock and valid block are
\* as before; and handling the proposal that carries it leaves the chain,
\* the height and the round as they were.
C25_MalformedBundlesRejected ==
    /\ [](\A m \in BundleInputs :
            (m.type = "propose" /\ Malformed(m.latestCommit))
                => syncLatestCommit(Me, Entering(p), m.latestCommit) = Entering(p))
    /\ [][\A m \in BundleInputs :
            (/\ m.type = "propose" /\ Malformed(m.latestCommit)
             /\ p.CurrentStep # StepNil
             /\ p' = HandleMessage(Me, Entering(p), m))
                => /\ p'.blockchain = p.blockchain
                   /\ p'.CurrentHeight = p.CurrentHeight
                   /\ p'.CurrentRound = p.CurrentRound]_vars

\* the process tallied, at height 1, a proposal whose bundle for the block
\* of height 1 has valid precommits of two signatories only, and stores no
\* block at height 1
C25_Witness ==
    /\ p.CurrentHeight = 1 /\ ~BlockExistsAtHeight(p, 1)
    /\ Proposal(1, 0, EnvBlock(1, "B"), InvalidRound,
                Certificate(EnvBlock(1, "B"), {0, 1})) \in p.Proposals
    /\ p.CurrentStep = StepPrevote

\* C26: StartRound(r) sets CurrentRound = r and CurrentStep = Propose; the
\* proposer scheduled for (CurrentHeight, r) broadcasts exactly one Propose
\* for (CurrentHeight, r), with ValidBlock and ValidRound when a valid block
\* is set and with the fresh block of the Proposer and InvalidRound
\* otherwise, and schedules no timeout; any other process broadcasts nothing
\* and schedules exactly one propose timeout stamped (CurrentHeight, r).
C26_StartRoundEffect ==
    [][calls' = calls + 1
       => \E r \in Rounds :
            /\ p'.CurrentRound = r
            /\ p'.CurrentStep = StepPropose
            /\ p'.CurrentHeight = p.CurrentHeight
            /\ IF Me = Schedule(p.CurrentHeight, r)
               THEN /\ Len(p'.broadcast) = 1
                    /\ p'.broadcast[1].type = "propose"
                    /\ p'.broadcast[1].sig = Me
                    /\ p'.broadcast[1].height = p.CurrentHeight
                    /\ p'.broadcast[1].round = r
                    /\ IF p.ValidBlock # InvalidBlock
                       THEN /\ p'.broadcast[1].block = p.ValidBlock
                            /\ p'.broadcast[1].validRound = p.ValidRound
                       ELSE /\ p'.broadcast[1].block = BlockProposal(p.CurrentHeight, r)
                            /\ p'.broadcast[1].validRound = InvalidRound
                    /\ p'.timers = p.timers
               ELSE /\ p'.broadcast = << >>
                    /\ p'.timers = p.timers (+) SetToBag({[step |-> StepPropose,
                                         height |-> p.CurrentHeight, round |-> r]})]_vars

\* StartRound(2) at height 2, where the process is the proposer, after the
\* prevotes of round 0 made B its valid block: it proposes B with valid
\* round 0
C26_Witness ==
    /\ calls = 1 /\ p.CurrentHeight = 2 /\ p.CurrentRound = 2
    /\ p.ValidBlock = EnvBlock(2, "B") /\ p.ValidRound = 0
    /\ Len(p.broadcast) = 1
    /\ p.broadcast[1].type = "propose"
    /\ p.broadcast[1].block = EnvBlock(2, "B")
    /\ p.broadcast[1].validRound = 0

\* C27: across every message handler and timeout handler the pair
\* (CurrentHeight, CurrentRound) does not decrease in the lexicographic
\* order: the height does not decrease, the round does not decrease while
\* the height stays, and the round goes back to 0 only in an event that
\* increases the height.
C27_ProgressNeverUndone ==
    [][calls' = calls
       => /\ \/ p'.CurrentHeight > p.CurrentHeight
             \/ /\ p'.CurrentHeight = p.CurrentHeight
                /\ p'.CurrentRound >= p.CurrentRound
          /\ (p.CurrentRound > 0 /\ p'.CurrentRound = 0)
                => p'.CurrentHeight > p.CurrentHeight]_vars

\* the chain of s holds every block the chain of t holds and at most one
\* more, at height h, where t holds none
Extends(s, t, h) ==
    /\ \A k \in DOMAIN t.blockchain :
          k \in DOMAIN s.blockchain /\ s.blockchain[k] = t.blockchain[k]
    /\ DOMAIN s.blockchain \subseteq DOMAIN t.blockchain \cup {h}

\* C28: a stored block is never overwritten.  The commit rule and the
\* catch-up routine insert a block only at a height where none is stored,
\* so every event leaves the blocks stored before it as they are, and a
\* block once stored at a height stays the block at that height.
C28_StoredBlocksKept ==
    /\ [](\A round \in Rounds :
            Extends(checkProposeInCurrentHeightWithPrecommits(Me, Entering(p), round),
                    p, p.CurrentHeight))
    /\ [](\A m \in StoredInputs :
            m.type = "propose"
                => Extends(syncLatestCommit(Me, Entering(p), m.latestCommit),
                           p, m.latestCommit.Block.height))
    /\ [][\A h \in DOMAIN p.blockchain :
            h \in DOMAIN p'.blockchain /\ p'.blockchain[h] = p.blockchain[h]]_vars

\* C is stored at height 2 and the process, back at height 2, holds in its
\* tallies the proposal of (2, 0) for B and three precommits for B
C28_Witness ==
    /\ p.CurrentHeight = 2
    /\ BlockExistsAtHeight(p, 2) /\ BlockAtHeight(p, 2) = EnvBlock(2, "C")
    /\ Proposal(2, 0, EnvBlock(2, "B"), InvalidRound, NoCommit(2)) \in p.Proposals
    /\ Cardinality({c \in p.Precommits : c.blockHash = Hash(EnvBlock(2, "B"))}) > 2 * F

====
